---- MODULE Spec2Model ----
(***************************************************************************)
(* Model of the UnifiedTransfer class of assets/unified-transfer.js (the   *)
(* second definition of the class, lines 536-1253): one receiver session   *)
(* and one sender session of one transfer id.                              *)
(*                                                                         *)
(* JavaScript runs handlers to their next real suspension point without    *)
(* interleaving, so every action below is one such run: it starts at an    *)
(* event (a message, a timer, a promise settled by the browser) and ends   *)
(* where the code awaits something that only a later event can settle.     *)
(* Awaits of already settled promises (micro-tasks) do not end an action.  *)
(***************************************************************************)
EXTENDS Integers, Sequences, FiniteSets, TLC

\* ------------------------------------------------------------------ bounds
MaxChunks == 3       \* longest chunk sequence a receiver session is given
MaxSendChunks == 2   \* longest chunk sequence a sender session reads from its source
MaxChunkSize == 2    \* largest payload size, in bytes, of one chunk
MaxRetriesCfg == 2   \* largest configured config.maxRetries
MaxTicks == 8        \* monitor periods the clock runs for
MaxIdLen == 2        \* longest transfer id, in code units, that is enumerated
MaxSessions == 2     \* sessions of one role that are started on one instance
MaxBackoffRetries == 6   \* largest config.maxRetries of a sender whose backoff is followed

\* ------------------------------------------------------- program constants
MonitorInterval == 5000      \* setInterval period of the sender monitor, ms
StallWindow == 30000         \* no-progress limit of the sender monitor, ms
DefaultMaxBuffered == 8192   \* config.maxBuffered
LargeFileMaxBuffered == 4096 \* config.maxBuffered once a large file was started
Unset == -1                  \* a field that was never assigned (undefined)

\* values of dataChannel.bufferedAmount the channel takes: below every
\* threshold; at or above the wait threshold but within maxBuffered; above
\* maxBuffered (and above twice the maxBuffered of a large file)
BufferedValues == {0, 2048, 9000}

\* ------------------------------------------------------------------ state
VARIABLES
    \* the transfer as the sender produced it
    payload,          \* payload[i+1] = byte length of the chunk with sequence i
    capabilities,     \* which sink the browser offers: "fileSystemAccess", "streamSaver", "none"
    \* receiver object (startReceiving, lines 964-978)
    fileSize, receivedBytes, chunks, expectedChunk, isReady, earlyChunks, writeMode,
    activeReceivers,  \* keys of this.activeReceivers
    \* the sink
    writerState,      \* "none", "open", "closing", "closed", "aborted", "errored"
    sink,             \* sequence numbers handed to the sink, in call order
    pending,          \* handlers suspended in writer.write / writer.close, FIFO
    closeCalls,       \* calls of writer.close()
    writeState,       \* state of the sink at the latest call of writer.write, or "none"
    \* control state
    rphase,           \* startReceiving: "idle", "setup", "replay", "returned"
    replayPos,        \* index in earlyChunks of the chunk being replayed
    hpc,              \* per chunk: "new", "dropped", "early", "write", "close", "done"
    \* callbacks and history
    rOnComplete, rOnError,
    arrived,          \* sequence numbers handed to handleFileChunk while registered, in order
    processed,        \* sequence numbers passed to processFileChunk, in order
    dropped,          \* chunks ignored as "no receiver" after startReceiving was called
    rCancelled,       \* cancelTransfer(fileId, true) found the receiver
    \* the channel and the clock
    readyState,       \* dataChannel.readyState: "open" or "closed"
    bufferedAmount,   \* dataChannel.bufferedAmount
    now,              \* Date.now() as the monitor reads it, ms since startSending
    \* configuration and environment of the sender
    fileStream,       \* capabilities.fileStream
    isLargeFile,      \* file.size > config.largeFileThreshold
    chunkSize,        \* config.chunkSize
    maxRetries,       \* config.maxRetries
    maxBuffered,      \* config.maxBuffered
    \* sender object (startSending, lines 717-731) and registry
    activeSenders, sentBytes, chunkIndex, isActive, lastProgressTime,
    monitorOn,        \* the monitor interval is set
    \* locals of the drive loops
    spc,              \* where the drive loop is suspended
    retryCount,       \* sendWithStream: retryCount
    readPos,          \* sendWithStream: chunks obtained from reader.read()
    offset,           \* sendWithSlicing: offset
    \* callbacks and history
    sentLog,          \* DATA_CHUNK packets passed to dataChannel.send, in order
    sendCalled,       \* dataChannel.send was called (heartbeats included)
    sOnComplete, sOnError,
    sCauses,          \* causes passed to onError, in order
    sCancelled,       \* cancelTransfer(fileId) found the sender
    lastSendTime,     \* time of the last successful DATA_CHUNK send
    failStreak,       \* failed attempts since the last successful send
    lastStreak,       \* failStreak when the last successful send happened
    backoffMs,        \* sendWithStream: delay of the backoff timer that is running, ms
    sendState,        \* readyState at the latest dataChannel.send of a DATA_CHUNK, or "none"
    \* one call of waitForBuffer on its own (lines 1181-1217)
    attempts,         \* waitForBuffer: attempts
    comparisons,      \* threshold comparisons (line 1200) made by this call
    wpc,              \* "idle", "polling", "resolved", "closed", "timeout"
    \* createPacket, parsePacket, encryptDecrypt and handlePacket on their own
    pkIn,             \* the arguments: type, id, seq, data, key (config.secretKey)
    wire,             \* the buffer createPacket returned, or what is left of it
    parsed,           \* what parsePacket returned or threw
    xorOut,           \* what encryptDecrypt returned
    rxKey,            \* config.secretKey of the instance that parsed, <<>> before a parse
    ppc,              \* "idle", "input", "created", "cut", "parsed", "parsedCut", "parsedOther", "xor1", "xor2"
    handled,          \* what handlePacket returned: "none", "true", "false"
    \* the registries of an instance on which sessions are started repeatedly
    senderObjs,       \* the sender objects startSending created, in creation order
    receiverObjs,     \* the receiver objects startReceiving created, in creation order
    sendersById,      \* this.activeSenders: id -> index in senderObjs, or Absent
    config,           \* this.config of the instance with the registries: sendDelay, maxBuffered
    receiversById     \* this.activeReceivers: id -> index in receiverObjs, or Absent

rvars == <<payload, capabilities, fileSize, receivedBytes, chunks, expectedChunk,
           isReady, earlyChunks, writeMode, activeReceivers, writerState, sink,
           pending, closeCalls, writeState, rphase, replayPos, hpc, rOnComplete,
           rOnError, arrived, processed, dropped, rCancelled>>

svars == <<readyState, bufferedAmount, now, fileStream, isLargeFile, chunkSize, maxRetries,
           maxBuffered, activeSenders, sentBytes, chunkIndex, isActive,
           lastProgressTime, monitorOn, spc, retryCount, readPos, offset, sentLog,
           sendCalled, sOnComplete, sOnError, sCauses, sCancelled, lastSendTime,
           failStreak, lastStreak, backoffMs, sendState>>

wvars == <<attempts, comparisons, wpc>>

\* the state of the parts that are modelled on their own
pvars == <<pkIn, wire, parsed, xorOut, rxKey, ppc, handled>>

gvars == <<senderObjs, receiverObjs, sendersById, receiversById, config>>

xvars == <<wvars, pvars, gvars>>

vars == <<rvars, svars, xvars>>

FileId == "f1"

RECURSIVE SumSeq(_)
SumSeq(s) == IF s = <<>> THEN 0 ELSE Head(s) + SumSeq(Tail(s))

NumChunks == Len(payload)
Seqs == 0 .. (NumChunks - 1)
Size(i) == payload[i + 1]

\* The receiver-side state as one value, so that the code's functions can be
\* written as functions from state to state.
RxState ==
    [fileSize |-> fileSize, receivedBytes |-> receivedBytes, chunks |-> chunks,
     expectedChunk |-> expectedChunk, isReady |-> isReady, earlyChunks |-> earlyChunks,
     writeMode |-> writeMode, activeReceivers |-> activeReceivers,
     writerState |-> writerState, sink |-> sink, pending |-> pending,
     closeCalls |-> closeCalls, writeState |-> writeState, rphase |-> rphase, replayPos |-> replayPos,
     hpc |-> hpc, rOnComplete |-> rOnComplete, rOnError |-> rOnError,
     processed |-> processed]

SetRx(s) ==
    /\ fileSize' = s.fileSize
    /\ receivedBytes' = s.receivedBytes
    /\ chunks' = s.chunks
    /\ expectedChunk' = s.expectedChunk
    /\ isReady' = s.isReady
    /\ earlyChunks' = s.earlyChunks
    /\ writeMode' = s.writeMode
    /\ activeReceivers' = s.activeReceivers
    /\ writerState' = s.writerState
    /\ sink' = s.sink
    /\ pending' = s.pending
    /\ closeCalls' = s.closeCalls
    /\ writeState' = s.writeState
    /\ rphase' = s.rphase
    /\ replayPos' = s.replayPos
    /\ hpc' = s.hpc
    /\ rOnComplete' = s.rOnComplete
    /\ rOnError' = s.rOnError
    /\ processed' = s.processed

RECURSIVE processFileChunk(_, _)
RECURSIVE writeSequentialChunks(_, _)

\* The handler of chunk h returns.  When it was called from the replay loop of
\* startReceiving (lines 994-1000) the loop goes on with the next staged chunk
\* and clears the list after the last one.
HandlerReturns(s, h) ==
    LET d == [s EXCEPT !.hpc[h] = "done"] IN
    IF d.rphase = "replay" /\ d.replayPos <= Len(d.earlyChunks)
                           /\ d.earlyChunks[d.replayPos] = h
    THEN IF d.replayPos < Len(d.earlyChunks)
         THEN processFileChunk([d EXCEPT !.replayPos = d.replayPos + 1],
                               d.earlyChunks[d.replayPos + 1])
         ELSE [d EXCEPT !.earlyChunks = <<>>, !.rphase = "returned"]
    ELSE d

\* catch block of processFileChunk (lines 1119-1122)
ChunkError(s, h) == HandlerReturns([s EXCEPT !.rOnError = s.rOnError + 1], h)

\* completeReceiving after a successful close, or in memory mode (lines 1164-1170)
Completed(s, h) ==
    HandlerReturns([s EXCEPT !.rOnComplete = s.rOnComplete + 1,
                             !.activeReceivers = s.activeReceivers \ {FileId}], h)

\* catch block of completeReceiving (lines 1172-1175): the error is reported and
\* not rethrown, so processFileChunk returns normally
CompleteError(s, h) == HandlerReturns([s EXCEPT !.rOnError = s.rOnError + 1], h)

completeReceiving(s, h) ==
    IF s.writeMode = "memory"
    THEN Completed(s, h)
    ELSE LET c == [s EXCEPT !.closeCalls = s.closeCalls + 1] IN
         IF c.writerState = "open"
         THEN [c EXCEPT !.writerState = "closing",
                        !.pending = Append(c.pending, h),
                        !.hpc[h] = "close"]
         ELSE CompleteError(c, h)   \* close() of a stream that is not writable rejects

\* AfterDrain with the completion test off by one byte
AfterDrain_OffByOne(s, h) ==
    IF s.receivedBytes + 1 >= s.fileSize THEN completeReceiving(s, h) ELSE HandlerReturns(s, h)

\* processFileChunk after the drain (lines 1107-1117)
AfterDrain(s, h) ==
    IF s.receivedBytes >= s.fileSize THEN completeReceiving(s, h) ELSE HandlerReturns(s, h)

\* The drain loop from its head to its next suspension (lines 1128-1141)
writeSequentialChunks(s, h) ==
    IF s.expectedChunk \in s.chunks
    THEN IF s.writeMode = "memory"
         THEN writeSequentialChunks(
                  [s EXCEPT !.sink = Append(s.sink, s.expectedChunk),
                            !.chunks = s.chunks \ {s.expectedChunk},
                            !.expectedChunk = s.expectedChunk + 1], h)
         ELSE IF s.writerState = "open"
              THEN [s EXCEPT !.sink = Append(s.sink, s.expectedChunk),
                             !.pending = Append(s.pending, h),
                             !.writeState = s.writerState,
                             !.hpc[h] = "write"]
              \* write() to a stream that is not writable rejects
              ELSE ChunkError([s EXCEPT !.writeState = s.writerState], h)
    ELSE AfterDrain(s, h)

\* The drain loop after writer.write resolved (lines 1138-1139, then the loop head)
AfterWrite(s, h) ==
    writeSequentialChunks([s EXCEPT !.chunks = s.chunks \ {s.expectedChunk},
                                    !.expectedChunk = s.expectedChunk + 1], h)

\* processFileChunk handing the arriving chunk to the sink without the cursor
processFileChunk_Unordered(s, h) ==
    LET t == [s EXCEPT !.receivedBytes = s.receivedBytes + Size(h),
                       !.processed = Append(s.processed, h)] IN
    IF t.writeMode = "memory"
    THEN AfterDrain([t EXCEPT !.sink = Append(t.sink, h),
                              !.expectedChunk = t.expectedChunk + 1], h)
    ELSE [t EXCEPT !.sink = Append(t.sink, h),
                   !.chunks = t.chunks \cup {t.expectedChunk},
                   !.pending = Append(t.pending, h),
                   !.writeState = t.writerState,
                   !.hpc[h] = "write"]

processFileChunk(s, h) ==
    writeSequentialChunks([s EXCEPT !.chunks = s.chunks \cup {h},
                                    !.receivedBytes = s.receivedBytes + Size(h),
                                    !.processed = Append(s.processed, h)], h)

\* handleFileChunk without the early-chunk cache
handleFileChunk_NoCache(s, h) ==
    IF FileId \notin s.activeReceivers \/ ~s.isReady
    THEN [s EXCEPT !.hpc[h] = "dropped"]
    ELSE processFileChunk(s, h)

handleFileChunk(s, h) ==
    IF FileId \notin s.activeReceivers
    THEN [s EXCEPT !.hpc[h] = "dropped"]
    ELSE IF ~s.isReady
         THEN [s EXCEPT !.earlyChunks = Append(s.earlyChunks, h), !.hpc[h] = "early"]
         ELSE processFileChunk(s, h)

\* startReceiving once setupWriter has returned (lines 989-1002)
ReceiverReady(s) ==
    LET r == [s EXCEPT !.isReady = TRUE] IN
    IF Len(r.earlyChunks) > 0
    THEN processFileChunk([r EXCEPT !.rphase = "replay", !.replayPos = 1], r.earlyChunks[1])
    ELSE [r EXCEPT !.rphase = "returned"]

\* ---------------------------------------------------------------- actions
\* startReceiving up to the first real suspension.  Only the save-file picker
\* suspends; StreamSaver and the memory fallback are set up synchronously.
StartReceiving ==
    /\ rphase = "idle"
    /\ LET s == [RxState EXCEPT !.activeReceivers = activeReceivers \cup {FileId}] IN
       IF capabilities = "fileSystemAccess"
       THEN SetRx([s EXCEPT !.rphase = "setup"])
       ELSE IF capabilities = "streamSaver"
            THEN SetRx(ReceiverReady([s EXCEPT !.writeMode = "streamsaver",
                                               !.writerState = "open"]))
            ELSE SetRx(ReceiverReady([s EXCEPT !.writeMode = "memory"]))
    /\ UNCHANGED <<payload, capabilities, arrived, dropped, rCancelled, svars, xvars>>

\* showSaveFilePicker / createWritable settle: a writable, or memory mode after
\* a rejection (setupWriter's catch, lines 1042-1046)
SetupWriterDone ==
    /\ rphase = "setup"
    /\ \E ok \in BOOLEAN :
         IF ok
         THEN SetRx(ReceiverReady([RxState EXCEPT !.writeMode = "filesystem",
                                                  !.writerState = "open"]))
         ELSE SetRx(ReceiverReady([RxState EXCEPT !.writeMode = "memory"]))
    /\ UNCHANGED <<payload, capabilities, arrived, dropped, rCancelled, svars, xvars>>

\* handleFileChunk is called with the DATA_CHUNK of sequence number h
DeliverChunk(h) ==
    /\ hpc[h] = "new"
    /\ SetRx(handleFileChunk(RxState, h))
    /\ arrived' = IF FileId \in activeReceivers THEN Append(arrived, h) ELSE arrived
    /\ dropped' = IF FileId \notin activeReceivers /\ rphase # "idle"
                  THEN dropped \cup {h} ELSE dropped
    /\ UNCHANGED <<payload, capabilities, rCancelled>>

\* dataChannel.onmessage -> handlePacket -> handleFileChunk for one DATA_CHUNK
Deliver ==
    \E h \in Seqs :
        /\ DeliverChunk(h)
        /\ UNCHANGED <<svars, xvars>>

\* the oldest pending writer.write settles successfully
WriteResolve ==
    /\ pending # <<>>
    /\ hpc[Head(pending)] = "write"
    /\ writerState \in {"open", "closing", "aborted"}
    /\ SetRx(AfterWrite([RxState EXCEPT !.pending = Tail(pending)], Head(pending)))
    /\ UNCHANGED <<payload, capabilities, arrived, dropped, rCancelled, svars, xvars>>

\* the oldest pending writer.write rejects (the stream was aborted or failed)
WriteReject ==
    /\ pending # <<>>
    /\ hpc[Head(pending)] = "write"
    /\ writerState \in {"aborted", "errored"}
    /\ SetRx(ChunkError([RxState EXCEPT !.pending = Tail(pending)], Head(pending)))
    /\ UNCHANGED <<payload, capabilities, arrived, dropped, rCancelled, svars, xvars>>

\* the pending writer.close settles successfully
CloseResolve ==
    /\ pending # <<>>
    /\ hpc[Head(pending)] = "close"
    /\ writerState = "closing"
    /\ SetRx(Completed([RxState EXCEPT !.pending = Tail(pending),
                                       !.writerState = "closed"], Head(pending)))
    /\ UNCHANGED <<payload, capabilities, arrived, dropped, rCancelled, svars, xvars>>

CloseReject ==
    /\ pending # <<>>
    /\ hpc[Head(pending)] = "close"
    /\ writerState \in {"aborted", "errored"}
    /\ SetRx(CompleteError([RxState EXCEPT !.pending = Tail(pending)], Head(pending)))
    /\ UNCHANGED <<payload, capabilities, arrived, dropped, rCancelled, svars, xvars>>

\* the destination fails (disk full, file removed, download cancelled)
SinkFault ==
    /\ writerState \in {"open", "closing"}
    /\ writerState' = "errored"
    /\ UNCHANGED <<payload, capabilities, fileSize, receivedBytes, chunks, expectedChunk,
                   isReady, earlyChunks, writeMode, activeReceivers, sink, pending,
                   closeCalls, writeState, rphase, replayPos, hpc, rOnComplete, rOnError,
                   arrived, processed, dropped, rCancelled, svars, xvars>>

\* cancelTransfer(fileId, true), lines 1234-1241
CancelReceiver ==
    /\ FileId \in activeReceivers
    /\ writerState' = IF writeMode \in {"filesystem", "streamsaver"}
                         /\ writerState \in {"open", "closing"}
                      THEN "aborted" ELSE writerState
    /\ activeReceivers' = activeReceivers \ {FileId}
    /\ rCancelled' = TRUE
    /\ UNCHANGED <<payload, capabilities, fileSize, receivedBytes, chunks, expectedChunk,
                   isReady, earlyChunks, writeMode, sink, pending,
                   closeCalls, writeState, rphase, replayPos, hpc, rOnComplete, rOnError,
                   arrived, processed, dropped, svars, xvars>>

\* ------------------------------------------------------------------ sender
TotalSize == SumSeq(payload)     \* sender.totalSize = file.size

TxState ==
    [maxBuffered |-> maxBuffered, activeSenders |-> activeSenders, sentBytes |-> sentBytes,
     chunkIndex |-> chunkIndex, isActive |-> isActive,
     monitorOn |-> monitorOn, spc |-> spc, retryCount |-> retryCount, readPos |-> readPos,
     offset |-> offset, sentLog |-> sentLog, sendCalled |-> sendCalled,
     sOnComplete |-> sOnComplete,
     sOnError |-> sOnError, sCauses |-> sCauses, lastSendTime |-> lastSendTime,
     failStreak |-> failStreak, lastStreak |-> lastStreak,
     backoffMs |-> backoffMs, sendState |-> sendState]

SetTx(t) ==
    /\ maxBuffered' = t.maxBuffered
    /\ activeSenders' = t.activeSenders
    /\ sentBytes' = t.sentBytes
    /\ chunkIndex' = t.chunkIndex
    /\ isActive' = t.isActive
    /\ monitorOn' = t.monitorOn
    /\ spc' = t.spc
    /\ retryCount' = t.retryCount
    /\ readPos' = t.readPos
    /\ offset' = t.offset
    /\ sentLog' = t.sentLog
    /\ sendCalled' = t.sendCalled
    /\ sOnComplete' = t.sOnComplete
    /\ sOnError' = t.sOnError
    /\ sCauses' = t.sCauses
    /\ lastSendTime' = t.lastSendTime
    /\ failStreak' = t.failStreak
    /\ lastStreak' = t.lastStreak
    /\ backoffMs' = t.backoffMs
    /\ sendState' = t.sendState

\* what a sender handler leaves alone
TxFrame == UNCHANGED <<rvars, xvars, readyState, bufferedAmount, now, fileStream, isLargeFile,
                       chunkSize, maxRetries, lastProgressTime, sCancelled>>

\* bufferThreshold that is the whole budget
bufferThreshold_WholeBudget(t) == t.maxBuffered

\* waitForBuffer: the threshold of one poll (line 1199)
bufferThreshold(t) == t.maxBuffered \div 4

\* sendWithStream: the limit of the pause loop (line 876)
bufferLimit(t) == IF isLargeFile THEN t.maxBuffered \div 2 ELSE t.maxBuffered

\* startSending after its drive loop returned: clearInterval (line 772)
SenderEnds(t) == [t EXCEPT !.spc = "ended", !.monitorOn = FALSE]

\* sendWithStream: finally (lines 900-903)
StreamFinally(t) == SenderEnds([t EXCEPT !.activeSenders = t.activeSenders \ {FileId}])

\* sendWithStream: catch (lines 897-899)
StreamFail(t, cause) ==
    StreamFinally([t EXCEPT !.sOnError = t.sOnError + 1, !.sCauses = Append(t.sCauses, cause)])

\* sendWithStream: after the loop (lines 894-895)
StreamComplete(t) == StreamFinally([t EXCEPT !.sOnComplete = t.sOnComplete + 1])

\* sendWithStream: loop head (lines 789-790)
StreamLoopHead(t) ==
    IF t.isActive THEN [t EXCEPT !.spc = "read"] ELSE StreamComplete(t)

\* sendWithStream after the retry loop (lines 868-891)
AfterRetryLoop(t) ==
    IF bufferedAmount > bufferLimit(t) /\ t.isActive
    THEN [t EXCEPT !.spc = "pause"]
    ELSE [t EXCEPT !.spc = "delay"]

\* backoffDelay without the cap
backoffDelay_NoCap(k) == 100 * 2^(k - 1)

\* Math.min(1000, 100 * Math.pow(2, retryCount - 1)) (line 862)
backoffDelay(k) == IF 100 * 2^(k - 1) > 1000 THEN 1000 ELSE 100 * 2^(k - 1)

\* 'Max retries exceeded: ' + error.message (line 858); msg: the error caught
MaxRetriesExceeded(msg) ==
    CASE msg = "bufferTimeout" -> "maxRetries:bufferTimeout"
      [] msg = "sendFailed" -> "maxRetries:sendFailed"
      [] OTHER -> "maxRetries:closed"

\* catch block of the retry loop after the recovery wait (lines 857-864)
RetryBudget(t, msg) ==
    IF t.retryCount >= maxRetries
    THEN StreamFail(t, MaxRetriesExceeded(msg))
    ELSE [t EXCEPT !.spc = "backoff", !.backoffMs = backoffDelay(t.retryCount)]

\* RetryCatch of a sender that numbers attempts instead of chunks
RetryCatch_Advances(t, msg) ==
    LET c == [t EXCEPT !.retryCount = t.retryCount + 1, !.failStreak = t.failStreak + 1,
                       !.chunkIndex = t.chunkIndex + 1] IN
    IF msg = "closed" THEN [c EXCEPT !.spc = "recover"] ELSE RetryBudget(c, msg)

\* catch block of the retry loop (lines 842-855); msg: the error caught, "closed"
\* when its message contains 'closed'
RetryCatch(t, msg) ==
    LET c == [t EXCEPT !.retryCount = t.retryCount + 1, !.failStreak = t.failStreak + 1] IN
    IF msg = "closed" THEN [c EXCEPT !.spc = "recover"] ELSE RetryBudget(c, msg)

\* SendChunk that keeps retryCount after a successful send
SendChunk_NoReset(t, ok) ==
    IF bufferedAmount > t.maxBuffered * 2
    THEN [t EXCEPT !.spc = "tooHigh"]
    ELSE IF ok /\ readyState = "open"
         THEN AfterRetryLoop(
                  [t EXCEPT !.sentLog = Append(t.sentLog, [seq |-> t.chunkIndex,
                                                           chunk |-> t.readPos - 1,
                                                           len |-> Size(t.readPos - 1)]),
                            !.sendCalled = TRUE,
                            !.sendState = readyState,
                            !.sentBytes = t.sentBytes + Size(t.readPos - 1),
                            !.chunkIndex = t.chunkIndex + 1,
                            !.lastSendTime = now,
                            !.lastStreak = t.failStreak,
                            !.failStreak = 0])
         ELSE RetryCatch([t EXCEPT !.sendCalled = TRUE, !.sendState = readyState],
                         "sendFailed")

\* packet creation and dataChannel.send (lines 819-838); ok: send does not throw.
\* The 'buffer still too high' branch (lines 827-831) leaves the loop suspended
\* in "tooHigh".
SendChunk(t, ok) ==
    IF bufferedAmount > t.maxBuffered * 2
    THEN [t EXCEPT !.spc = "tooHigh"]
    ELSE IF ok /\ readyState = "open"
         THEN AfterRetryLoop(
                  [t EXCEPT !.sentLog = Append(t.sentLog, [seq |-> t.chunkIndex,
                                                           chunk |-> t.readPos - 1,
                                                           len |-> Size(t.readPos - 1)]),
                            !.sendCalled = TRUE,
                            !.sendState = readyState,
                            !.sentBytes = t.sentBytes + Size(t.readPos - 1),
                            !.chunkIndex = t.chunkIndex + 1,
                            !.retryCount = 0,
                            !.lastSendTime = now,
                            !.lastStreak = t.failStreak,
                            !.failStreak = 0])
         ELSE RetryCatch([t EXCEPT !.sendCalled = TRUE, !.sendState = readyState],
                         "sendFailed")

\* waitForBuffer resolved: second liveness check, then the send (lines 813-838)
AfterBufferWait(t, ok) ==
    IF readyState # "open" THEN RetryCatch(t, "closed") ELSE SendChunk(t, ok)

\* one attempt of the retry loop up to its first suspension (lines 804-811).
\* waitForBuffer polls at once; it suspends only when that poll finds the
\* buffer at or above the threshold.
AttemptSend(t, ok) ==
    IF readyState # "open"
    THEN RetryCatch(t, "closed")
    ELSE IF bufferedAmount < bufferThreshold(t)
         THEN AfterBufferWait(t, ok)
         ELSE [t EXCEPT !.spc = "bufWait"]

\* head of the retry loop (line 803)
RetryLoop(t, ok) ==
    IF t.retryCount < maxRetries THEN AttemptSend(t, ok) ELSE AfterRetryLoop(t)

\* checkConnectionHealth after its buffer wait: the heartbeat (lines 599-608)
Heartbeat(hbOk) == hbOk /\ readyState = "open"

\* the heartbeat packet was handed to dataChannel.send (line 602)
HeartbeatSent(t) == [t EXCEPT !.sendCalled = TRUE]

\* sendWithSlicing: after the loop (lines 949-954)
SliceExit(t) ==
    SenderEnds([t EXCEPT !.sOnComplete = IF t.sentBytes >= TotalSize
                                         THEN t.sOnComplete + 1 ELSE t.sOnComplete,
                         !.activeSenders = t.activeSenders \ {FileId}])

\* sendWithSlicing: catch (lines 942-946)
SliceError(t, cause) ==
    SliceExit([t EXCEPT !.sOnError = t.sOnError + 1, !.sCauses = Append(t.sCauses, cause)])

\* sendWithSlicing: loop head up to the first suspension (lines 912-920)
SliceLoopHead(t) ==
    IF t.isActive /\ t.offset < TotalSize
    THEN IF readyState # "open"
         THEN SliceError(t, "closed")
         ELSE IF bufferedAmount < bufferThreshold(t)
              THEN [t EXCEPT !.spc = "sliceRead"]
              ELSE [t EXCEPT !.spc = "sliceWait"]
    ELSE SliceExit(t)

\* SliceEnd without the clamp to the file size
SliceEnd_NoClamp(t) == t.offset + chunkSize

\* sendWithSlicing: end of the slice being sent (line 918)
SliceEnd(t) ==
    IF t.offset + chunkSize < TotalSize THEN t.offset + chunkSize ELSE TotalSize

\* startSending once the health check passed (lines 717-771)
BeginSending(t) ==
    LET b == [t EXCEPT !.activeSenders = t.activeSenders \cup {FileId},
                       !.isActive = TRUE,
                       !.lastSendTime = now,
                       !.monitorOn = TRUE] IN
    IF fileStream THEN StreamLoopHead(b) ELSE SliceLoopHead(b)

\* NotHealthy of a startSending that registers the sender before the health check
NotHealthy_Registered(t) ==
    [t EXCEPT !.sOnError = t.sOnError + 1, !.sCauses = Append(t.sCauses, "notHealthy"),
              !.activeSenders = t.activeSenders \cup {FileId},
              !.spc = "ended"]

\* startSending when the health check failed (lines 711-715)
NotHealthy(t) ==
    [t EXCEPT !.sOnError = t.sOnError + 1, !.sCauses = Append(t.sCauses, "notHealthy"),
              !.spc = "ended"]

SenderFresh ==
    /\ readyState \in {"open", "closed"}
    /\ bufferedAmount \in BufferedValues
    /\ now = 0
    /\ fileStream \in BOOLEAN
    /\ isLargeFile \in BOOLEAN
    /\ chunkSize \in 1..MaxChunkSize
    /\ maxBuffered = DefaultMaxBuffered
    /\ activeSenders = {}
    /\ sentBytes = 0
    /\ chunkIndex = 0
    /\ isActive = FALSE
    /\ lastProgressTime = Unset
    /\ monitorOn = FALSE
    /\ spc = "idle"
    /\ retryCount = 0
    /\ readPos = 0
    /\ offset = 0
    /\ sentLog = <<>>
    /\ sendCalled = FALSE
    /\ sOnComplete = 0
    /\ sOnError = 0
    /\ sCauses = <<>>
    /\ sCancelled = FALSE
    /\ lastSendTime = 0
    /\ failStreak = 0
    /\ lastStreak = 0
    /\ backoffMs = 0
    /\ sendState = "none"

InitSender ==
    /\ SenderFresh
    /\ maxRetries \in 0..MaxRetriesCfg

\* startSending up to its first suspension (lines 698-771, 581-609)
StartSending ==
    /\ spc = "idle"
    /\ \E hbOk \in BOOLEAN :
         LET t == [TxState EXCEPT !.maxBuffered = IF isLargeFile THEN LargeFileMaxBuffered
                                                  ELSE maxBuffered] IN
         IF readyState # "open"
         THEN SetTx(NotHealthy(t))
         ELSE IF bufferedAmount > t.maxBuffered
              THEN SetTx([t EXCEPT !.spc = "startHealthWait"])
              ELSE IF Heartbeat(hbOk) THEN SetTx(BeginSending(HeartbeatSent(t)))
                                      ELSE SetTx(NotHealthy(HeartbeatSent(t)))
    /\ TxFrame

\* a poll of the waitForBuffer called by startSending's health check
StartHealthPoll ==
    /\ spc = "startHealthWait"
    /\ \E hbOk \in BOOLEAN, timeout \in BOOLEAN :
         IF readyState # "open" \/ timeout
         THEN SetTx(NotHealthy(TxState))
         ELSE IF bufferedAmount < bufferThreshold(TxState)
              THEN IF Heartbeat(hbOk) THEN SetTx(BeginSending(HeartbeatSent(TxState)))
                                      ELSE SetTx(NotHealthy(HeartbeatSent(TxState)))
              ELSE SetTx(TxState)
    /\ TxFrame

\* reader.read() settles (lines 790-803).  due: more than config.heartbeatInterval
\* (2 s) passed since sender.lastHealthCheck; the monitor's clock is too coarse
\* to decide it, so both outcomes are possible at any time.
ReadResolve ==
    /\ spc = "read"
    /\ \E ok \in BOOLEAN, hbOk \in BOOLEAN, due \in BOOLEAN :
         IF readPos = NumChunks
         THEN SetTx(StreamComplete(TxState))
         ELSE LET t == [TxState EXCEPT !.readPos = readPos + 1] IN
              IF due
              THEN IF readyState # "open"
                   THEN SetTx(StreamFail(t, "healthCheck"))
                   ELSE IF bufferedAmount > t.maxBuffered
                        THEN SetTx([t EXCEPT !.spc = "loopHealthWait"])
                        ELSE IF Heartbeat(hbOk)
                             THEN SetTx(RetryLoop(HeartbeatSent(t), ok))
                             ELSE SetTx(StreamFail(HeartbeatSent(t), "healthCheck"))
              ELSE SetTx(RetryLoop(t, ok))
    /\ TxFrame

\* a poll of the waitForBuffer called by the periodic health check (lines 794-799)
LoopHealthPoll ==
    /\ spc = "loopHealthWait"
    /\ \E ok \in BOOLEAN, hbOk \in BOOLEAN, timeout \in BOOLEAN :
         IF readyState # "open" \/ timeout
         THEN SetTx(StreamFail(TxState, "healthCheck"))
         ELSE IF bufferedAmount < bufferThreshold(TxState)
              THEN IF Heartbeat(hbOk)
                   THEN SetTx(RetryLoop(HeartbeatSent(TxState), ok))
                   ELSE SetTx(StreamFail(HeartbeatSent(TxState), "healthCheck"))
              ELSE SetTx(TxState)
    /\ TxFrame

\* a poll of the waitForBuffer called by the retry loop (lines 1186-1213); timeout:
\* this poll finds the attempt budget spent
BufferPoll ==
    /\ spc = "bufWait"
    /\ \E ok \in BOOLEAN, timeout \in BOOLEAN :
         IF readyState # "open"
         THEN SetTx(RetryCatch(TxState, "closed"))
         ELSE IF timeout
              THEN SetTx(RetryCatch(TxState, "bufferTimeout"))
              ELSE IF bufferedAmount < bufferThreshold(TxState)
                   THEN SetTx(AfterBufferWait(TxState, ok))
                   ELSE SetTx(TxState)
    /\ TxFrame

\* RecoverResume that gives up without looking at the channel again
RecoverResume_NoRecheck ==
    /\ spc = "recover"
    /\ SetTx(StreamFail(TxState, "permanentlyClosed"))
    /\ TxFrame

\* the recovery wait after a 'closed' error ends (lines 849-859)
RecoverResume ==
    /\ spc = "recover"
    /\ IF readyState # "open"
       THEN SetTx(StreamFail(TxState, "permanentlyClosed"))
       ELSE SetTx(RetryBudget(TxState, "closed"))
    /\ TxFrame

\* the backoff delay ends: next attempt (lines 862-864, 803-811)
BackoffResume ==
    /\ spc = "backoff"
    /\ \E ok \in BOOLEAN : SetTx(RetryLoop([TxState EXCEPT !.backoffMs = 0], ok))
    /\ TxFrame

\* one wait of the pause loop ends (lines 877-880)
PauseResume ==
    /\ spc = "pause"
    /\ SetTx(AfterRetryLoop(TxState))
    /\ TxFrame

\* the inter-chunk delay ends: next iteration (lines 891, 789-790)
DelayResume ==
    /\ spc = "delay"
    /\ SetTx(StreamLoopHead(TxState))
    /\ TxFrame

\* a poll of the waitForBuffer called by sendWithSlicing (line 915)
SlicePoll ==
    /\ spc = "sliceWait"
    /\ \E timeout \in BOOLEAN :
         IF readyState # "open"
         THEN SetTx(SliceError(TxState, "closed"))
         ELSE IF timeout
              THEN SetTx(SliceError(TxState, "bufferTimeout"))
              ELSE IF bufferedAmount < bufferThreshold(TxState)
                   THEN SetTx([TxState EXCEPT !.spc = "sliceRead"])
                   ELSE SetTx(TxState)
    /\ TxFrame

\* slice.arrayBuffer() settles: packet, send, progress (lines 920-940)
SliceReadResolve ==
    /\ spc = "sliceRead"
    /\ \E ok \in BOOLEAN :
         LET t == [TxState EXCEPT !.chunkIndex = chunkIndex + 1, !.sendCalled = TRUE,
                                  !.sendState = readyState] IN
         IF ok /\ readyState = "open"
         THEN SetTx([t EXCEPT !.sentLog = Append(sentLog, [seq |-> chunkIndex,
                                                           chunk |-> chunkIndex,
                                                           len |-> SliceEnd(TxState) - offset]),
                              !.offset = SliceEnd(TxState),
                              !.sentBytes = SliceEnd(TxState),
                              !.lastSendTime = now,
                              !.spc = "sliceDelay"])
         ELSE SetTx(SliceError(t, "sendFailed"))
    /\ TxFrame

\* the send delay of sendWithSlicing ends (lines 940, 912)
SliceDelayResume ==
    /\ spc = "sliceDelay"
    /\ SetTx(SliceLoopHead(TxState))
    /\ TxFrame

\* Monitor without the stall test
Monitor_NoStallTest ==
    IF ~isActive
    THEN /\ monitorOn' = FALSE
         /\ UNCHANGED <<isActive, lastProgressTime, sOnError, sCauses>>
    ELSE IF readyState # "open"
    THEN /\ isActive' = FALSE
         /\ monitorOn' = FALSE
         /\ sOnError' = sOnError + 1
         /\ sCauses' = Append(sCauses, "monitorClosed")
         /\ UNCHANGED lastProgressTime
    ELSE IF lastProgressTime = Unset
    THEN /\ lastProgressTime' = now'
         /\ UNCHANGED <<isActive, monitorOn, sOnError, sCauses>>
    ELSE UNCHANGED <<isActive, monitorOn, lastProgressTime, sOnError, sCauses>>

\* the callback of the monitor interval (lines 736-764) at one period of the clock
Monitor ==
    IF ~isActive
    THEN /\ monitorOn' = FALSE
         /\ UNCHANGED <<isActive, lastProgressTime, sOnError, sCauses>>
    ELSE IF readyState # "open"
    THEN /\ isActive' = FALSE
         /\ monitorOn' = FALSE
         /\ sOnError' = sOnError + 1
         /\ sCauses' = Append(sCauses, "monitorClosed")
         /\ UNCHANGED lastProgressTime
    ELSE IF lastProgressTime = Unset
    THEN /\ lastProgressTime' = now'
         /\ UNCHANGED <<isActive, monitorOn, sOnError, sCauses>>
    ELSE IF now' - lastProgressTime > StallWindow
    THEN /\ isActive' = FALSE
         /\ monitorOn' = FALSE
         /\ sOnError' = sOnError + 1
         /\ sCauses' = Append(sCauses, "stalled")
         /\ UNCHANGED lastProgressTime
    ELSE UNCHANGED <<isActive, monitorOn, lastProgressTime, sOnError, sCauses>>

\* the monitor interval fires
MonitorTick ==
    /\ monitorOn
    /\ now < MaxTicks * MonitorInterval
    /\ now' = now + MonitorInterval
    /\ Monitor
    /\ UNCHANGED <<rvars, xvars, readyState, bufferedAmount, fileStream, isLargeFile, chunkSize,
                   maxRetries, maxBuffered, activeSenders, sentBytes, chunkIndex,
                   spc, retryCount, readPos, offset, sentLog, sendCalled,
                   sOnComplete, sCancelled, lastSendTime, failStreak, lastStreak, backoffMs, sendState>>

\* the channel closes
ChannelClose ==
    /\ readyState = "open"
    /\ readyState' = "closed"
    /\ UNCHANGED <<rvars, xvars, bufferedAmount, now, fileStream, isLargeFile, chunkSize, maxRetries,
                   maxBuffered, activeSenders, sentBytes, chunkIndex, isActive,
                   lastProgressTime, monitorOn, spc, retryCount, readPos, offset, sentLog,
                   sendCalled, sOnComplete, sOnError, sCauses, sCancelled, lastSendTime,
                   failStreak, lastStreak, backoffMs, sendState>>

\* the channel is open again: readyState is a field of the channel object the
\* caller passed in, and the re-check after the recovery wait (lines 852-855)
\* reads it anew
ChannelReopen ==
    /\ readyState = "closed"
    /\ readyState' = "open"
    /\ UNCHANGED <<rvars, xvars, bufferedAmount, now, fileStream, isLargeFile, chunkSize, maxRetries,
                   maxBuffered, activeSenders, sentBytes, chunkIndex, isActive,
                   lastProgressTime, monitorOn, spc, retryCount, readPos, offset, sentLog,
                   sendCalled, sOnComplete, sOnError, sCauses, sCancelled, lastSendTime,
                   failStreak, lastStreak, backoffMs, sendState>>

\* the channel queues or drains bytes
BufferChange ==
    /\ \E b \in BufferedValues : b # bufferedAmount /\ bufferedAmount' = b
    /\ UNCHANGED <<rvars, xvars, readyState, now, fileStream, isLargeFile, chunkSize, maxRetries,
                   maxBuffered, activeSenders, sentBytes, chunkIndex, isActive,
                   lastProgressTime, monitorOn, spc, retryCount, readPos, offset, sentLog,
                   sendCalled, sOnComplete, sOnError, sCauses, sCancelled, lastSendTime,
                   failStreak, lastStreak, backoffMs, sendState>>

\* cancelTransfer(fileId), lines 1242-1248
CancelSender ==
    /\ FileId \in activeSenders
    /\ isActive' = FALSE
    /\ activeSenders' = activeSenders \ {FileId}
    /\ sCancelled' = TRUE
    /\ UNCHANGED <<rvars, xvars, readyState, bufferedAmount, now, fileStream, isLargeFile, chunkSize,
                   maxRetries, maxBuffered, sentBytes, chunkIndex,
                   lastProgressTime, monitorOn, spc, retryCount, readPos, offset, sentLog,
                   sendCalled, sOnComplete, sOnError, sCauses, lastSendTime, failStreak,
                   lastStreak, backoffMs, sendState>>

\* ------------------------------------------------------------ packet format
\* Byte buffers are sequences of 0..255, strings are sequences of UTF-16 code
\* units.  A number read from a 32-bit field whose value is 2^31 or more is
\* beyond the integers of the checker and is represented by Beyond.
Magic == <<170, 187, 204, 221>>     \* 0xAA, 0xBB, 0xCC, 0xDD
Undefined == -1                      \* a read past the end of a typed array
Beyond == -2
Replacement == 65533                 \* U+FFFD
ByteOrderMark == <<239, 187, 191>>   \* U+FEFF in UTF-8

Min(a, b) == IF a < b THEN a ELSE b

\* data.slice(from, to) of a typed array: both ends clamped to the length
Slice(buf, from, to) == SubSeq(buf, from + 1, Min(to, Len(buf)))

\* BitXor computing the bitwise or
RECURSIVE BitXor_Or(_, _)
BitXor_Or(a, b) ==
    IF a = 0 THEN b
    ELSE IF b = 0 THEN a
    ELSE (IF a % 2 = 1 \/ b % 2 = 1 THEN 1 ELSE 0) + 2 * BitXor_Or(a \div 2, b \div 2)

\* a ^ b of two bytes
RECURSIVE BitXor(_, _)
BitXor(a, b) ==
    IF a = 0 THEN b
    ELSE IF b = 0 THEN a
    ELSE ((a + b) % 2) + 2 * BitXor(a \div 2, b \div 2)

\* KeyAt that never leaves the first key byte
KeyAt_FirstByte(key, i) == IF Len(key) = 0 THEN 0 ELSE key[1]

\* key[i % key.length]; undefined (0 under ^) when the key is empty
KeyAt(key, i) == IF Len(key) = 0 THEN 0 ELSE key[(i % Len(key)) + 1]

\* encryptDecrypt (lines 570-576)
encryptDecrypt(data, key) ==
    [i \in 1..Len(data) |-> BitXor(data[i], KeyAt(key, i - 1)) % 256]

\* TextEncoder.encode: UTF-8 of a string; a surrogate that is not part of a
\* pair is encoded as U+FFFD
IsHigh(c) == c >= 55296 /\ c <= 56319
IsLow(c) == c >= 56320 /\ c <= 57343

Utf8(cp) ==
    IF cp < 128 THEN <<cp>>
    ELSE IF cp < 2048 THEN <<192 + (cp \div 64), 128 + (cp % 64)>>
    ELSE IF cp < 65536
         THEN <<224 + (cp \div 4096), 128 + ((cp \div 64) % 64), 128 + (cp % 64)>>
         ELSE <<240 + (cp \div 262144), 128 + ((cp \div 4096) % 64),
                128 + ((cp \div 64) % 64), 128 + (cp % 64)>>

\* the number of leading elements below 128: ASCII is one byte per code unit
\* in both directions
AsciiRun(str) ==
    IF \A i \in 1..Len(str) : str[i] < 128
    THEN Len(str)
    ELSE (CHOOSE i \in 1..Len(str) : str[i] >= 128 /\ \A j \in 1..(i - 1) : str[j] < 128) - 1

RECURSIVE TextEncode(_)
TextEncode(str) ==
    IF str = <<>> THEN <<>>
    ELSE IF AsciiRun(str) > 0
         THEN SubSeq(str, 1, AsciiRun(str))
                  \o TextEncode(SubSeq(str, AsciiRun(str) + 1, Len(str)))
    ELSE IF IsHigh(str[1]) /\ Len(str) >= 2 /\ IsLow(str[2])
         THEN Utf8(65536 + (str[1] - 55296) * 1024 + (str[2] - 56320))
                  \o TextEncode(SubSeq(str, 3, Len(str)))
         ELSE IF IsHigh(str[1]) \/ IsLow(str[1])
              THEN Utf8(Replacement) \o TextEncode(Tail(str))
              ELSE Utf8(str[1]) \o TextEncode(Tail(str))

\* TextDecoder.decode: the UTF-8 decoder with replacement; a leading byte order
\* mark is removed
Needed(b) ==
    IF b < 128 THEN 0
    ELSE IF b >= 194 /\ b <= 223 THEN 1
    ELSE IF b >= 224 /\ b <= 239 THEN 2
    ELSE IF b >= 240 /\ b <= 244 THEN 3
    ELSE Undefined

\* the k-th byte after the lead byte is a continuation the decoder accepts
Continues(buf, k) ==
    /\ k + 1 <= Len(buf)
    /\ LET lo == IF k = 1 /\ buf[1] = 224 THEN 160
                 ELSE IF k = 1 /\ buf[1] = 240 THEN 144 ELSE 128
           hi == IF k = 1 /\ buf[1] = 237 THEN 159
                 ELSE IF k = 1 /\ buf[1] = 244 THEN 143 ELSE 191
       IN buf[k + 1] >= lo /\ buf[k + 1] <= hi

CodeUnits(cp) ==
    IF cp < 65536 THEN <<cp>>
    ELSE <<55296 + ((cp - 65536) \div 1024), 56320 + ((cp - 65536) % 1024)>>

RECURSIVE Utf8Decode(_)
Utf8Decode(buf) ==
    IF buf = <<>> THEN <<>>
    ELSE LET n == Needed(buf[1])
             k == IF n < 1 \/ ~Continues(buf, 1) THEN 0
                  ELSE IF n = 1 \/ ~Continues(buf, 2) THEN 1
                  ELSE IF n = 2 \/ ~Continues(buf, 3) THEN 2 ELSE 3
             rest == SubSeq(buf, k + 2, Len(buf))
         IN IF n = 0
            THEN SubSeq(buf, 1, AsciiRun(buf))
                     \o Utf8Decode(SubSeq(buf, AsciiRun(buf) + 1, Len(buf)))
            ELSE IF n = Undefined \/ k < n THEN <<Replacement>> \o Utf8Decode(rest)
            ELSE IF n = 1
                 THEN <<(buf[1] - 192) * 64 + (buf[2] - 128)>> \o Utf8Decode(rest)
            ELSE IF n = 2
                 THEN <<(buf[1] - 224) * 4096 + (buf[2] - 128) * 64 + (buf[3] - 128)>>
                          \o Utf8Decode(rest)
            ELSE CodeUnits((buf[1] - 240) * 262144 + (buf[2] - 128) * 4096
                               + (buf[3] - 128) * 64 + (buf[4] - 128))
                     \o Utf8Decode(rest)

TextDecode(buf) ==
    IF Len(buf) >= 3 /\ SubSeq(buf, 1, 3) = ByteOrderMark
    THEN Utf8Decode(SubSeq(buf, 4, Len(buf)))
    ELSE Utf8Decode(buf)

\* DataView.setUint32(0, n, true) for 0 <= n < 2^31
LE32(n) == <<n % 256, (n \div 256) % 256, (n \div 65536) % 256, (n \div 16777216) % 256>>

\* DataView.getUint32(at, true); the caller has checked at + 4 <= Len(buf)
Uint32At(buf, at) ==
    IF buf[at + 4] >= 128 THEN Beyond
    ELSE buf[at + 1] + 256 * buf[at + 2] + 65536 * buf[at + 3] + 16777216 * buf[at + 4]

\* createPacket that writes the length of the transfer id in code units
createPacket_IdLenInUnits(type, fileId, index, data, key) ==
    Magic \o <<type % 256>> \o <<Len(fileId) % 256>> \o TextEncode(fileId)
          \o LE32(index) \o LE32(Len(data)) \o encryptDecrypt(data, key)

\* createPacket (lines 615-648); key: this.config.secretKey
createPacket(type, fileId, index, data, key) ==
    Magic \o <<type % 256>> \o <<Len(TextEncode(fileId)) % 256>> \o TextEncode(fileId)
          \o LE32(index) \o LE32(Len(data)) \o encryptDecrypt(data, key)

Thrown(message) == [ok |-> FALSE, error |-> message]

\* parsePacket (lines 653-693).  A buffer that ends before the id length byte
\* makes fileIdLen undefined and every later offset NaN: slice(6, NaN) and
\* slice(NaN, NaN) are empty and getUint32(NaN) reads at index 0.
parsePacket(buf, key) ==
    IF Len(buf) < 4 \/ SubSeq(buf, 1, 4) # Magic
    THEN Thrown("Invalid packet magic")
    ELSE IF Len(buf) < 6
    THEN [ok |-> TRUE, type |-> IF Len(buf) = 5 THEN buf[5] ELSE Undefined,
          fileId |-> <<>>, chunkIndex |-> Uint32At(buf, 0), data |-> <<>>]
    ELSE LET at == 6 + buf[6] IN
         IF at + 8 > Len(buf)
         THEN Thrown("RangeError")
         ELSE LET dataLength == Uint32At(buf, at + 4)
                  to == IF dataLength = Beyond THEN Len(buf) ELSE at + 8 + dataLength
              IN [ok |-> TRUE, type |-> buf[5],
                  fileId |-> TextDecode(Slice(buf, 6, at)),
                  chunkIndex |-> Uint32At(buf, at),
                  data |-> encryptDecrypt(Slice(buf, at + 8, to), key)]

\* the packet functions applied to their arguments
PacketFrame == UNCHANGED <<rvars, svars, wvars, gvars, pkIn, handled>>

CreatePacket ==
    /\ ppc = "input"
    /\ wire' = createPacket(pkIn.type, pkIn.id, pkIn.seq, pkIn.data, pkIn.key)
    /\ ppc' = "created"
    /\ UNCHANGED <<parsed, xorOut, rxKey>>
    /\ PacketFrame

\* the buffer loses its last byte on the way
Truncate ==
    /\ ppc \in {"created", "cut"}
    /\ Len(pkIn.id) <= MaxIdLen
    /\ Len(wire) > 0
    /\ wire' = SubSeq(wire, 1, Len(wire) - 1)
    /\ ppc' = "cut"
    /\ UNCHANGED <<parsed, xorOut, rxKey>>
    /\ PacketFrame

\* a byte of the magic marker is changed on the way
BreakMagic ==
    /\ ppc = "created"
    /\ \E k \in 1..4 : wire' = [wire EXCEPT ![k] = 0]
    /\ ppc' = "cut"
    /\ UNCHANGED <<parsed, xorOut, rxKey>>
    /\ PacketFrame

ParsePacket ==
    /\ ppc \in {"created", "cut"}
    /\ parsed' = parsePacket(wire, pkIn.key)
    /\ rxKey' = pkIn.key
    /\ ppc' = IF ppc = "created" THEN "parsed" ELSE "parsedCut"
    /\ UNCHANGED <<wire, xorOut>>
    /\ PacketFrame

\* config.secretKey: the keys of the instance that creates packets and of the
\* instances that parse them; a key is repeated over the payload
Keys == {<<85>>, <<1, 255>>}
RxKeys == Keys \cup {<<85, 255>>}

\* the packet is parsed by another instance, whose constructor generated a
\* key of its own (lines 541, 563-565)
ParseOtherKey ==
    /\ ppc = "created"
    /\ \E k2 \in RxKeys \ {pkIn.key} :
         /\ parsed' = parsePacket(wire, k2)
         /\ rxKey' = k2
    /\ ppc' = "parsedOther"
    /\ UNCHANGED <<wire, xorOut>>
    /\ PacketFrame

Encrypt ==
    /\ ppc = "input"
    /\ xorOut' = encryptDecrypt(pkIn.data, pkIn.key)
    /\ ppc' = "xor1"
    /\ UNCHANGED <<wire, parsed, rxKey>>
    /\ PacketFrame

Decrypt ==
    /\ ppc = "xor1"
    /\ xorOut' = encryptDecrypt(xorOut, pkIn.key)
    /\ ppc' = "xor2"
    /\ UNCHANGED <<wire, parsed, rxKey>>
    /\ PacketFrame

\* ---------------------------------------------------- handlePacket on bytes
FileIdUnits == <<102, 49>>                                  \* "f1"
OtherIdUnits == <<102, 50>>                                 \* "f2"
HeartbeatUnits == <<104, 101, 97, 114, 116, 98, 101, 97, 116>>   \* "heartbeat"
Zeros(n) == [i \in 1..n |-> 0]

\* the DATA_CHUNK of sequence number h as createPacket builds it for a payload
\* of Size(h) + lost bytes, with its last lost bytes missing
ChunkDatagram(h, lost, key) ==
    LET packet == createPacket(1, FileIdUnits, h, Zeros(Size(h) + lost), key)
    IN SubSeq(packet, 1, Len(packet) - lost)

\* what the channel hands to onmessage: the chunks of the transfer, whole or
\* cut short, a heartbeat (line 601), a chunk of another transfer, ten zero
\* bytes (part_000, line 313) and a bare magic marker
Datagrams(key) ==
    {ChunkDatagram(h, lost, key) : h \in Seqs, lost \in {0, 1}}
        \cup {createPacket(99, HeartbeatUnits, 0, <<1, 2, 3, 4>>, key),
              createPacket(1, OtherIdUnits, 0, <<0>>, key),
              Zeros(10),
              Magic}

\* handlePacket whose catch lets the error of parsePacket escape
handlePacketResult_NoCatch(packet) ==
    IF packet.ok THEN "true" ELSE "raised"

\* what handlePacket returns (lines 1063-1068)
handlePacketResult(packet) ==
    IF packet.ok THEN "true" ELSE "false"

\* HandlePacket that hands a chunk to the receiver whatever its transfer id
HandlePacket_AnyId ==
    \E buf \in Datagrams(pkIn.key) :
        LET packet == parsePacket(buf, pkIn.key) IN
        /\ wire' = buf
        /\ handled' = handlePacketResult(packet)
        /\ IF packet.ok /\ packet.type = 1
           THEN /\ packet.chunkIndex \in Seqs
                /\ Len(packet.data) = Size(packet.chunkIndex)
                /\ DeliverChunk(packet.chunkIndex)
           ELSE UNCHANGED rvars
        /\ UNCHANGED <<svars, wvars, gvars, pkIn, parsed, xorOut, rxKey, ppc>>

\* dataChannel.onmessage -> handlePacket (lines 1052-1069, 1074-1082)
HandlePacket ==
    \E buf \in Datagrams(pkIn.key) :
        LET packet == parsePacket(buf, pkIn.key) IN
        /\ wire' = buf
        /\ handled' = handlePacketResult(packet)
        /\ IF packet.ok /\ packet.type = 1 /\ packet.fileId = FileIdUnits
           THEN /\ packet.chunkIndex \in Seqs
                /\ Len(packet.data) = Size(packet.chunkIndex)
                /\ DeliverChunk(packet.chunkIndex)
           ELSE UNCHANGED rvars
        /\ UNCHANGED <<svars, wvars, gvars, pkIn, parsed, xorOut, rxKey, ppc>>

\* ------------------------------------------------- waitForBuffer on its own
maxAttempts == 500      \* waitForBuffer: maxAttempts

\* check() that tests the attempt budget before the channel
check_BudgetFirst ==
    IF attempts > maxAttempts
    THEN /\ wpc' = "timeout"
         /\ UNCHANGED <<attempts, comparisons>>
    ELSE IF readyState # "open"
    THEN /\ wpc' = "closed"
         /\ UNCHANGED <<attempts, comparisons>>
    ELSE IF bufferedAmount < bufferThreshold(TxState)
    THEN /\ wpc' = "resolved"
         /\ comparisons' = comparisons + 1
         /\ UNCHANGED attempts
    ELSE /\ wpc' = "polling"
         /\ comparisons' = comparisons + 1
         /\ attempts' = attempts + 1

\* check(), the poll of waitForBuffer (lines 1186-1213)
check ==
    IF readyState # "open"
    THEN /\ wpc' = "closed"
         /\ UNCHANGED <<attempts, comparisons>>
    ELSE IF attempts > maxAttempts
    THEN /\ wpc' = "timeout"
         /\ UNCHANGED <<attempts, comparisons>>
    ELSE IF bufferedAmount < bufferThreshold(TxState)
    THEN /\ wpc' = "resolved"
         /\ comparisons' = comparisons + 1
         /\ UNCHANGED attempts
    ELSE /\ wpc' = "polling"
         /\ comparisons' = comparisons + 1
         /\ attempts' = attempts + 1

\* waitForBuffer is called: the first poll runs at once (line 1215)
WaitForBuffer ==
    /\ wpc = "idle"
    /\ check
    /\ UNCHANGED <<rvars, svars, pvars, gvars>>

\* the timer set by a poll fires (line 1211)
WaitPoll ==
    /\ wpc = "polling"
    /\ check
    /\ UNCHANGED <<rvars, svars, pvars, gvars>>

\* ------------------------------------- the registries under repeated starts
\* Several sessions of one instance: each startSending and startReceiving
\* creates an object and stores it in the instance's Map under its id.  Of a
\* session only what touches the Maps is kept: the sender's isActive flag and
\* the chunks its drive loop has left, the receiver's byte count (in chunks),
\* the handlers suspended in its sink and whether its sink was aborted.
\* The two Maps never meet in the code, so a run uses the instance in one role.
TransferIds == {"f1", "f2"}
Absent == 0

\* this.config as the constructor leaves it (lines 538-546)
DefaultSendDelay == 50
DefaultConfig == [sendDelay |-> DefaultSendDelay, maxBuffered |-> DefaultMaxBuffered]

\* this.config after startSending's large-file branch (lines 706-707)
LargeFileSendDelay == 100
LargeFileConfig == [sendDelay |-> LargeFileSendDelay, maxBuffered |-> LargeFileMaxBuffered]

RegistryFrame == UNCHANGED <<rvars, svars, wvars, pvars, config>>

\* startSending on an open channel (lines 717-733, 766-771): the new sender is
\* stored under its id, whatever the Map holds there, and its drive loop starts
StartSendingSession ==
    /\ Len(senderObjs) < MaxSessions
    /\ receiverObjs = <<>>
    /\ \E id \in TransferIds, n \in 1..MaxSendChunks :
         /\ senderObjs' = Append(senderObjs, [fileId |-> id, isActive |-> TRUE,
                                              left |-> n, looping |-> TRUE,
                                              isLargeFile |-> FALSE])
         /\ sendersById' = [sendersById EXCEPT ![id] = Len(senderObjs) + 1]
    /\ UNCHANGED <<receiverObjs, receiversById>>
    /\ RegistryFrame

\* startSending with a file above config.largeFileThreshold (lines 702-708,
\* 717-733, 766-771): the instance's config is rewritten before the sender is
\* created and stored
StartLargeSession ==
    /\ Len(senderObjs) < MaxSessions
    /\ receiverObjs = <<>>
    /\ \E id \in TransferIds, n \in 1..MaxSendChunks :
         /\ senderObjs' = Append(senderObjs, [fileId |-> id, isActive |-> TRUE,
                                              left |-> n, looping |-> TRUE,
                                              isLargeFile |-> TRUE])
         /\ sendersById' = [sendersById EXCEPT ![id] = Len(senderObjs) + 1]
    /\ config' = LargeFileConfig
    /\ UNCHANGED <<receiverObjs, receiversById>>
    /\ UNCHANGED <<rvars, svars, wvars, pvars>>

\* one chunk sent by the drive loop of sender k (lines 786-893, 912-940)
DriveLoopStep ==
    /\ \E k \in 1..Len(senderObjs) :
         /\ senderObjs[k].looping
         /\ senderObjs[k].isActive
         /\ senderObjs[k].left > 0
         /\ senderObjs' = [senderObjs EXCEPT ![k].left = @ - 1]
    /\ UNCHANGED <<receiverObjs, sendersById, receiversById>>
    /\ RegistryFrame

\* the drive loop of sender k ends: activeSenders.delete(sender.fileId)
\* (lines 902, 954) removes what the Map holds under the id
DriveLoopExit ==
    /\ \E k \in 1..Len(senderObjs) :
         /\ senderObjs[k].looping
         /\ ~senderObjs[k].isActive \/ senderObjs[k].left = 0
         /\ senderObjs' = [senderObjs EXCEPT ![k].looping = FALSE]
         /\ sendersById' = [sendersById EXCEPT ![senderObjs[k].fileId] = Absent]
    /\ UNCHANGED <<receiverObjs, receiversById>>
    /\ RegistryFrame

\* cancelTransfer(id) (lines 1243-1247): the sender the Map holds is stopped
CancelSendingSession ==
    /\ \E id \in TransferIds :
         /\ sendersById[id] # Absent
         /\ senderObjs' = [senderObjs EXCEPT ![sendersById[id]].isActive = FALSE]
         /\ sendersById' = [sendersById EXCEPT ![id] = Absent]
    /\ UNCHANGED <<receiverObjs, receiversById>>
    /\ RegistryFrame

\* startReceiving (lines 964-983): the new receiver is stored under its id,
\* whatever the Map holds there
StartReceivingSession ==
    /\ Len(receiverObjs) < MaxSessions
    /\ senderObjs = <<>>
    /\ \E id \in TransferIds, n \in 1..MaxSendChunks :
         /\ receiverObjs' = Append(receiverObjs, [fileId |-> id, need |-> n, got |-> 0,
                                                  inWrite |-> 0, closing |-> FALSE,
                                                  aborted |-> FALSE])
         /\ receiversById' = [receiversById EXCEPT ![id] = Len(receiverObjs) + 1]
    /\ UNCHANGED <<senderObjs, sendersById>>
    /\ RegistryFrame

\* a chunk for id arrives (lines 1074-1093, 1098-1113): it goes to the receiver
\* the Map holds, whose handler suspends in writer.write
ChunkForSession ==
    /\ \E id \in TransferIds :
         LET r == receiversById[id] IN
         /\ r # Absent
         /\ receiverObjs[r].got + receiverObjs[r].inWrite < receiverObjs[r].need
         /\ receiverObjs' = [receiverObjs EXCEPT ![r].inWrite = @ + 1]
    /\ UNCHANGED <<senderObjs, sendersById, receiversById>>
    /\ RegistryFrame

\* a write of receiver k settles (lines 1107-1122, 1146-1162): a rejected write
\* of an aborted sink ends the handler, a written chunk is counted and the last
\* one goes on to writer.close()
SessionWriteSettle ==
    /\ \E k \in 1..Len(receiverObjs) :
         LET r == receiverObjs[k] IN
         /\ r.inWrite > 0
         /\ receiverObjs' =
              IF r.aborted
              THEN [receiverObjs EXCEPT ![k].inWrite = @ - 1]
              ELSE [receiverObjs EXCEPT ![k].inWrite = @ - 1,
                                        ![k].got = @ + 1,
                                        ![k].closing = r.got + 1 >= r.need]
    /\ UNCHANGED <<senderObjs, sendersById, receiversById>>
    /\ RegistryFrame

\* writer.close() of receiver k resolves (lines 1164-1170):
\* activeReceivers.delete(receiver.fileId) removes what the Map holds under the id
SessionCloseResolve ==
    /\ \E k \in 1..Len(receiverObjs) :
         /\ receiverObjs[k].closing
         /\ receiverObjs' = [receiverObjs EXCEPT ![k].closing = FALSE]
         /\ receiversById' = [receiversById EXCEPT ![receiverObjs[k].fileId] = Absent]
    /\ UNCHANGED <<senderObjs, sendersById>>
    /\ RegistryFrame

\* cancelTransfer(id, true) (lines 1235-1241): the sink of the receiver the Map
\* holds is aborted and the entry removed
CancelReceivingSession ==
    /\ \E id \in TransferIds :
         /\ receiversById[id] # Absent
         /\ receiverObjs' = [receiverObjs EXCEPT ![receiversById[id]].aborted = TRUE,
                                                 ![receiversById[id]].closing = FALSE]
         /\ receiversById' = [receiversById EXCEPT ![id] = Absent]
    /\ UNCHANGED <<senderObjs, sendersById>>
    /\ RegistryFrame

\* ------------------------------------------------------------ specifications
\* no call of waitForBuffer on its own
WaitIdle ==
    /\ attempts = 0
    /\ comparisons = 0
    /\ wpc = "idle"

\* nothing was handed to the packet functions
NoInput == [type |-> 0, id |-> <<>>, seq |-> 0, data |-> <<>>, key |-> <<>>]

PacketIdle ==
    /\ pkIn = NoInput
    /\ wire = <<>>
    /\ parsed = Thrown("none")
    /\ xorOut = <<>>
    /\ rxKey = <<>>
    /\ ppc = "idle"
    /\ handled = "none"

\* no session was started on the instance with the two registries
RegistryIdle ==
    /\ senderObjs = <<>>
    /\ receiverObjs = <<>>
    /\ sendersById = [id \in TransferIds |-> Absent]
    /\ receiversById = [id \in TransferIds |-> Absent]
    /\ config = DefaultConfig

RestIdle == WaitIdle /\ PacketIdle /\ RegistryIdle

\* the receiver before startReceiving
ReceiverIdle ==
    /\ fileSize = SumSeq(payload)
    /\ receivedBytes = 0
    /\ chunks = {}
    /\ expectedChunk = 0
    /\ isReady = FALSE
    /\ earlyChunks = <<>>
    /\ writeMode = "none"
    /\ activeReceivers = {}
    /\ writerState = "none"
    /\ sink = <<>>
    /\ pending = <<>>
    /\ closeCalls = 0
    /\ writeState = "none"
    /\ rphase = "idle"
    /\ replayPos = 0
    /\ hpc = [i \in Seqs |-> "new"]
    /\ rOnComplete = 0
    /\ rOnError = 0
    /\ arrived = <<>>
    /\ processed = <<>>
    /\ dropped = {}
    /\ rCancelled = FALSE

\* the chunk sequences of a source: full chunks followed by a last chunk of any
\* size, or no chunk at all for an empty file
Payloads ==
    {<<>>} \cup {[i \in 1..n |-> IF i < n THEN MaxChunkSize ELSE last] :
                    n \in 1..MaxChunks, last \in 1..MaxChunkSize}

\* a receiver session on its own: the sender side is not started
InitRx ==
    /\ payload \in Payloads
    /\ capabilities \in {"fileSystemAccess", "streamSaver", "none"}
    /\ ReceiverIdle
    /\ InitSender
    /\ RestIdle
    /\ readyState = "open"
    /\ bufferedAmount = 0
    /\ fileStream = TRUE
    /\ isLargeFile = FALSE
    /\ chunkSize = 1
    /\ maxRetries = 0

NextReceiver ==
    \/ StartReceiving
    \/ SetupWriterDone
    \/ Deliver
    \/ WriteResolve
    \/ WriteReject
    \/ CloseResolve
    \/ CloseReject
    \/ SinkFault
    \/ CancelReceiver

SpecReceiver == InitRx /\ [][NextReceiver]_vars

\* a sender session on its own: the receiver side is not started
InitTx ==
    /\ payload \in Payloads
    /\ Len(payload) <= MaxSendChunks
    /\ capabilities = "none"
    /\ ReceiverIdle
    /\ InitSender
    /\ RestIdle
    /\ readyState = "open"
    /\ bufferedAmount = 0
    \* settings the chosen drive loop never reads are not varied
    /\ fileStream => chunkSize = 1
    /\ ~fileStream => maxRetries = 0

NextSender ==
    \/ StartSending
    \/ StartHealthPoll
    \/ ReadResolve
    \/ LoopHealthPoll
    \/ BufferPoll
    \/ RecoverResume
    \/ BackoffResume
    \/ PauseResume
    \/ DelayResume
    \/ SlicePoll
    \/ SliceReadResolve
    \/ SliceDelayResume
    \/ MonitorTick
    \/ ChannelClose
    \/ BufferChange
    \/ CancelSender

SpecSender == InitTx /\ [][NextSender]_vars

\* a sender session on a channel that stays open and that nobody cancels,
\* with the timers and the promises it waits for scheduled fairly: a timeout
\* that is due fires (setTimeout, setInterval) and a pending read settles.
\* The drive loop is one async function, suspended in one await at a time.
\* The source is a whole number of chunks.
InitTermination ==
    /\ InitTx
    /\ \A k \in 1..Len(payload) : payload[k] = MaxChunkSize
    /\ fileStream

DriveStep ==
    \/ StartHealthPoll
    \/ ReadResolve
    \/ LoopHealthPoll
    \/ BufferPoll
    \/ BackoffResume
    \/ PauseResume
    \/ DelayResume

NextTermination ==
    \/ StartSending
    \/ StartHealthPoll
    \/ ReadResolve
    \/ LoopHealthPoll
    \/ BufferPoll
    \/ BackoffResume
    \/ PauseResume
    \/ DelayResume
    \/ MonitorTick
    \/ BufferChange

FairTimers ==
    /\ WF_vars(DriveStep)
    /\ WF_vars(MonitorTick)

SpecTermination == InitTermination /\ [][NextTermination]_vars /\ FairTimers

\* a streaming sender on a channel that can close and be open again; the
\* monitor and cancelTransfer are left out
InitReopen ==
    /\ InitTx
    /\ fileStream
    /\ ~isLargeFile

NextReopen ==
    \/ StartSending
    \/ StartHealthPoll
    \/ ReadResolve
    \/ LoopHealthPoll
    \/ BufferPoll
    \/ RecoverResume
    \/ BackoffResume
    \/ PauseResume
    \/ DelayResume
    \/ ChannelClose
    \/ ChannelReopen
    \/ BufferChange

SpecReopen == InitReopen /\ [][NextReopen]_vars

\* a streaming sender with a long retry budget on a channel that stays open:
\* attempts fail because send throws or the buffer wait times out
InitBackoff ==
    /\ payload \in Payloads
    /\ Len(payload) <= MaxSendChunks
    /\ capabilities = "none"
    /\ ReceiverIdle
    /\ SenderFresh
    /\ RestIdle
    /\ maxRetries \in 1..MaxBackoffRetries
    /\ readyState = "open"
    /\ bufferedAmount = 0
    /\ fileStream
    /\ ~isLargeFile
    /\ chunkSize = 1

NextBackoff ==
    \/ StartSending
    \/ StartHealthPoll
    \/ ReadResolve
    \/ LoopHealthPoll
    \/ BufferPoll
    \/ BackoffResume
    \/ DelayResume
    \/ BufferChange

SpecBackoff == InitBackoff /\ [][NextBackoff]_vars

\* a sender session on an open channel whose bufferedAmount never drops below
\* the threshold of waitForBuffer, and that nobody cancels
CongestedValues == {b \in BufferedValues : b >= DefaultMaxBuffered \div 4}

InitCongested ==
    /\ payload \in Payloads
    /\ Len(payload) <= MaxSendChunks
    /\ capabilities = "none"
    /\ ReceiverIdle
    /\ InitSender
    /\ RestIdle
    /\ readyState = "open"
    /\ bufferedAmount \in CongestedValues
    /\ fileStream => chunkSize = 1
    /\ ~fileStream => maxRetries = 0

CongestedChange ==
    /\ BufferChange
    /\ bufferedAmount' \in CongestedValues

\* startSending and the read step on a channel whose send does not throw: with
\* the channel open, the only error these two steps can report themselves is
\* the failed heartbeat
StartSendingSendOk ==
    /\ StartSending
    /\ sCauses' = sCauses

ReadResolveSendOk ==
    /\ ReadResolve
    /\ sCauses' = sCauses

NextCongested ==
    \/ StartSendingSendOk
    \/ StartHealthPoll
    \/ ReadResolveSendOk
    \/ LoopHealthPoll
    \/ BufferPoll
    \/ BackoffResume
    \/ PauseResume
    \/ DelayResume
    \/ SlicePoll
    \/ MonitorTick
    \/ CongestedChange

SpecCongested == InitCongested /\ [][NextCongested]_vars

\* one call of waitForBuffer on a channel that drains, fills or closes at any time
InitWait ==
    /\ payload = <<>>
    /\ capabilities = "none"
    /\ ReceiverIdle
    /\ InitSender
    /\ RestIdle
    /\ fileStream = TRUE
    /\ isLargeFile = FALSE
    /\ chunkSize = 1
    /\ maxRetries = 0

NextWait ==
    \/ WaitForBuffer
    \/ WaitPoll
    \/ BufferChange
    \/ ChannelClose

SpecWait == InitWait /\ [][NextWait]_vars

\* the packet functions on their own: the arguments are drawn here
Types == {1, 99, 255, 256}
IdUnits == {97, 233, 65279}      \* 'a', U+00E9 (two bytes), U+FEFF (three bytes)
LongId(n) == [i \in 1..n |-> 97]
Ids ==
    UNION {[1..n -> IdUnits] : n \in 0..MaxIdLen}
        \cup {<<55357, 56832>>, LongId(255), LongId(256)}
Seqs32 == {0, 258, 2147483647}
DataBytes == {1, 255}
Datas == UNION {[1..n -> DataBytes] : n \in 0..MaxChunkSize}

InitPacket ==
    /\ payload = <<>>
    /\ capabilities = "none"
    /\ ReceiverIdle
    /\ InitSender
    /\ WaitIdle
    /\ RegistryIdle
    /\ readyState = "open"
    /\ bufferedAmount = 0
    /\ fileStream = TRUE
    /\ isLargeFile = FALSE
    /\ chunkSize = 1
    /\ maxRetries = 0
    /\ pkIn \in [type : Types, id : Ids, seq : Seqs32, data : Datas, key : Keys]
    /\ wire = <<>>
    /\ parsed = Thrown("none")
    /\ xorOut = <<>>
    /\ rxKey = <<>>
    /\ ppc = "input"
    /\ handled = "none"

NextPacket ==
    \/ CreatePacket
    \/ Truncate
    \/ BreakMagic
    \/ ParsePacket
    \/ ParseOtherKey
    \/ Encrypt
    \/ Decrypt

SpecPacket == InitPacket /\ [][NextPacket]_vars

\* a receiver session fed with datagrams, on a sink that does not fail
InitDatagram ==
    /\ payload \in Payloads
    /\ Len(payload) <= MaxSendChunks
    /\ capabilities \in {"fileSystemAccess", "streamSaver", "none"}
    /\ ReceiverIdle
    /\ InitSender
    /\ WaitIdle
    /\ RegistryIdle
    /\ readyState = "open"
    /\ bufferedAmount = 0
    /\ fileStream = TRUE
    /\ isLargeFile = FALSE
    /\ chunkSize = 1
    /\ maxRetries = 0
    /\ \E key \in Keys : pkIn = [NoInput EXCEPT !.key = key]
    /\ wire = <<>>
    /\ parsed = Thrown("none")
    /\ xorOut = <<>>
    /\ rxKey = <<>>
    /\ ppc = "idle"
    /\ handled = "none"

NextDatagram ==
    \/ StartReceiving
    \/ SetupWriterDone
    \/ HandlePacket
    \/ WriteResolve
    \/ CloseResolve

SpecDatagram == InitDatagram /\ [][NextDatagram]_vars

\* sessions started repeatedly on one instance; the single sessions modelled in
\* detail are not started
InitRegistry ==
    /\ payload = <<>>
    /\ capabilities = "none"
    /\ ReceiverIdle
    /\ InitSender
    /\ RestIdle
    /\ readyState = "open"
    /\ bufferedAmount = 0
    /\ fileStream = TRUE
    /\ isLargeFile = FALSE
    /\ chunkSize = 1
    /\ maxRetries = 0

NextRegistry ==
    \/ StartSendingSession
    \/ DriveLoopStep
    \/ DriveLoopExit
    \/ CancelSendingSession
    \/ StartReceivingSession
    \/ ChunkForSession
    \/ SessionWriteSettle
    \/ SessionCloseResolve
    \/ CancelReceivingSession

SpecRegistry == InitRegistry /\ [][NextRegistry]_vars

\* senders of files below and above config.largeFileThreshold started on one
\* instance, at the same time or one after the other
NextStrategy ==
    \/ StartSendingSession
    \/ StartLargeSession
    \/ DriveLoopStep
    \/ DriveLoopExit
    \/ CancelSendingSession

SpecStrategy == InitRegistry /\ [][NextStrategy]_vars

\* a receiver whose chunk handlers never overlap: a chunk is delivered only when
\* the sink is ready and no handler is suspended
DeliverSequential ==
    /\ rphase = "returned"
    /\ pending = <<>>
    /\ Deliver

NextSequential ==
    \/ StartReceiving
    \/ SetupWriterDone
    \/ DeliverSequential
    \/ WriteResolve
    \/ CloseResolve

SpecSequential == InitRx /\ [][NextSequential]_vars

\* ------------------------------------------------------------------ claims
InOrder == [k \in 1..NumChunks |-> k - 1]
Count(q, x) == Cardinality({k \in 1..Len(q) : q[k] = x})
Causes == {sCauses[k] : k \in 1..Len(sCauses)}
\* the fixed part of a packet: magic, type, id length, sequence number, payload length
HeaderLen == 14
\* a buffer the packet format does not allow
Malformed(buf) ==
    \/ Len(buf) < HeaderLen
    \/ SubSeq(buf, 1, 4) # Magic
    \/ HeaderLen + buf[6] > Len(buf)
    \/ Uint32At(buf, buf[6] + 10) = Beyond
    \/ HeaderLen + buf[6] + Uint32At(buf, buf[6] + 10) > Len(buf)
MaxRetriesCauses == {MaxRetriesExceeded(m) : m \in {"bufferTimeout", "sendFailed", "closed"}}
Quiet == pending = <<>> /\ rphase \in {"idle", "returned"}

\* C1: when the chunks 0..N-1 of a transfer reach a ready receiver one at a
\* time, in whatever order, the sink is handed a prefix of 0,1,2,... at every
\* moment and exactly 0,1,...,N-1, each once, when all of them were handled.
C1_SequentialDelivery ==
    /\ \A k \in 1..Len(sink) : sink[k] = k - 1
    /\ (\A h \in Seqs : hpc[h] \in {"close", "done"}) => sink = InOrder

C1_Witness ==
    /\ NumChunks = 3
    /\ \A h \in Seqs : hpc[h] = "done"
    /\ arrived = <<2, 0, 1>>
    /\ writeMode = "filesystem"
    /\ sink = InOrder

\* C2: also when chunk handlers overlap on a suspended sink write, the sink is
\* handed 0,1,2,... in order without repetition, and the cursor never runs
\* ahead of the number of chunks handed to the sink.
C2_OrderedUnderOverlap ==
    /\ \A k \in 1..Len(sink) : sink[k] = k - 1
    /\ expectedChunk <= Len(sink)

\* C3: from startReceiving on, and unless the receiver is cancelled, no chunk
\* is dropped as unknown; before the sink is ready the chunks are staged in
\* arrival order and none is processed; afterwards every chunk that arrived
\* is passed to processFileChunk exactly once, except the staged ones still
\* waiting for their turn in the replay, and the staged ones are replayed in
\* the order they were staged.
C3_EarlyChunksKept ==
    (rphase # "idle" /\ ~rCancelled) =>
        /\ dropped = {}
        /\ ~isReady => (earlyChunks = arrived /\ processed = <<>>)
        /\ isReady =>
             \A h \in Seqs :
                 Count(arrived, h) = 1 =>
                     \/ Count(processed, h) = 1
                     \/ /\ Count(processed, h) = 0
                        /\ rphase = "replay"
                        /\ \E k \in (replayPos + 1)..Len(earlyChunks) : earlyChunks[k] = h
        /\ rphase = "replay" =>
             \A j, k \in 1..replayPos :
                 j < k => \E a, b \in 1..Len(processed) :
                              a < b /\ processed[a] = earlyChunks[j]
                                    /\ processed[b] = earlyChunks[k]

C3_Witness ==
    /\ ~rCancelled
    /\ rphase = "replay"
    /\ Len(earlyChunks) = 2
    /\ replayPos = 2
    /\ Len(arrived) = 3
    /\ Len(processed) = 3

C5_CompletesOnce ==
    (/\ NumChunks > 0
     /\ \A h \in Seqs : hpc[h] = "done"
     /\ Quiet
     /\ ~rCancelled
     /\ writerState \notin {"errored", "aborted"}) =>
        /\ rOnComplete = 1
        /\ closeCalls = IF writeMode = "memory" THEN 0 ELSE 1

\* C6: in the streaming sender retryCount is the number of failed attempts
\* since the last successful send; it is below maxRetries whenever another
\* attempt is pending and zero after every successful send; a sender whose
\* streak of failures reaches maxRetries on an open channel has ended with
\* onError('Max retries exceeded'), and that cause is given only then and
\* with the chunk that was being sent not transmitted.
C6_RetryBudget ==
    fileStream =>
        /\ retryCount = failStreak
        /\ spc \in {"bufWait", "backoff", "tooHigh"} => retryCount < maxRetries
        /\ spc = "recover" => retryCount <= maxRetries
        /\ spc \in {"read", "loopHealthWait", "pause", "delay"} => retryCount = 0
        /\ (maxRetries > 0 /\ failStreak = maxRetries /\ readyState = "open") =>
               /\ spc = "ended"
               /\ sOnError >= 1
               /\ sCauses[Len(sCauses)] \in MaxRetriesCauses
        /\ Causes \cap MaxRetriesCauses # {} =>
               /\ spc = "ended"
               /\ maxRetries > 0
               /\ failStreak = maxRetries
               /\ sOnComplete = 0
               /\ \A k \in 1..Len(sentLog) : sentLog[k].chunk # readPos - 1

C6_Witness ==
    /\ fileStream
    /\ maxRetries = 2
    /\ Len(sentLog) = 1
    /\ lastStreak = 1
    /\ readPos = 2
    /\ spc = "ended"
    /\ sCauses = <<"maxRetries:sendFailed">>

\* C7: a sender session gets at most one terminal callback: onComplete and
\* onError together are invoked at most once.
C7_OneTerminalCallback == sOnComplete + sOnError <= 1

\* C8: once a sender that has not transmitted all its bytes is cancelled,
\* neither onComplete nor onError is invoked for it.
C8_SilentCancel ==
    [][(sCancelled /\ sentBytes < TotalSize) =>
           (sOnComplete' = sOnComplete /\ sOnError' = sOnError)]_vars

\* C9: once a receiver is cancelled, neither onComplete nor onError is
\* invoked for it.
C9_NoCallbackAfterCancel ==
    [][rCancelled => (rOnComplete' = rOnComplete /\ rOnError' = rOnError)]_vars

\* C10: the monitor reports a stall only when the last successful send is
\* more than the stall window (30 s) back.
C10_NoStallWhileProgressing ==
    [][(Len(sCauses') > Len(sCauses) /\ sCauses'[Len(sCauses')] = "stalled") =>
           now' - lastSendTime > StallWindow]_vars

\* C11: startSending on a channel that is not open fails that start attempt:
\* onError is invoked once, dataChannel.send is never called, onComplete is
\* never invoked and no sender is registered, in the step that runs
\* startSending and ever after.
C11_ClosedStartFails ==
    [][/\ (spc = "idle" /\ spc' # "idle" /\ readyState # "open") =>
            /\ spc' = "ended"
            /\ sOnError' = 1
            /\ sCauses' = <<"notHealthy">>
            /\ sOnComplete' = 0
            /\ ~sendCalled'
            /\ sentLog' = <<>>
            /\ FileId \notin activeSenders'
            /\ ~monitorOn'
       /\ (spc = "ended" /\ sCauses = <<"notHealthy">>) =>
            UNCHANGED <<spc, sOnError, sCauses, sOnComplete, sendCalled, sentLog,
                        activeSenders, monitorOn>>]_vars

C11_Witness ==
    /\ readyState = "closed"
    /\ spc = "ended"
    /\ sCauses = <<"notHealthy">>
    /\ sOnError = 1
    /\ ~sendCalled
    /\ activeSenders = {}

\* C12: on a channel that stays open and whose bufferedAmount never drops below
\* the flow-control threshold, the sender never transmits the pending DATA_CHUNK
\* and ends Failed with a buffer-timeout cause: no packet is sent, onComplete is
\* never invoked and every error reported is the buffer timeout.
C12_CongestedSenderTimesOut ==
    NumChunks > 0 =>
        /\ sentLog = <<>>
        /\ sOnComplete = 0
        /\ Causes \subseteq {"bufferTimeout", "maxRetries:bufferTimeout"}

\* C13: one waitForBuffer on an open channel that never reaches the threshold
\* fails with a buffer timeout after exactly maxAttempts polls: the threshold
\* comparisons made by one wait never exceed maxAttempts.
C13_PollBudget ==
    /\ comparisons <= maxAttempts
    /\ wpc = "timeout" => comparisons = maxAttempts

\* C14: round-trip framing: for every type in 0..255, transfer id whose UTF-8
\* encoding is at most 255 bytes, sequence number and payload,
\* parsePacket(createPacket(type, id, sequence, payload)) under the same key
\* returns exactly the type, id, sequence number and payload.
C14_RoundTrip ==
    (ppc = "parsed" /\ pkIn.type \in 0..255 /\ Len(TextEncode(pkIn.id)) <= 255) =>
        /\ parsed.ok
        /\ parsed.type = pkIn.type
        /\ parsed.fileId = pkIn.id
        /\ parsed.chunkIndex = pkIn.seq
        /\ parsed.data = pkIn.data

\* C16: parsePacket rejects with an error, and never returns a packet for,
\* every buffer that is shorter than the fixed header, has a wrong magic marker,
\* or declares a transfer id length or a payload length that reads past the end
\* of the buffer; a declared payload length above the bytes present is not
\* accepted with a truncated payload.
C16_RejectsMalformed ==
    (ppc = "parsedCut" /\ Malformed(wire)) => ~parsed.ok

\* C17: handlePacket never raises on a malformed datagram: for every inbound
\* buffer that fails to decode it returns false, and the registry and the
\* receiver session (receivedBytes, pending chunks, cursor, early-chunk list,
\* sink) are left unchanged.
C17_UndecodableIgnored ==
    [][/\ handled' # "raised"
       /\ (wire' # wire /\ ~parsePacket(wire', pkIn.key).ok) =>
            /\ handled' = "false"
            /\ UNCHANGED <<activeReceivers, receivedBytes, chunks, expectedChunk,
                           earlyChunks, sink, pending, writerState, rOnComplete,
                           rOnError>>]_vars

C17_Witness ==
    /\ wire = Zeros(10)
    /\ handled = "false"
    /\ FileId \in activeReceivers
    /\ receivedBytes > 0
    /\ receivedBytes < fileSize

\* C15: obfuscation is an involution: for every byte sequence and every
\* non-empty key, encryptDecrypt applied twice under the same key gives the
\* bytes back, and its result always has the length of its input.
C15_XorInvolution ==
    /\ ppc \in {"xor1", "xor2"} => Len(xorOut) = Len(pkIn.data)
    /\ (ppc = "xor2" /\ Len(pkIn.key) > 0) => xorOut = pkIn.data

C15_Witness ==
    /\ ppc = "xor2"
    /\ pkIn.key = <<1, 255>>
    /\ Len(pkIn.data) = 2
    /\ xorOut = pkIn.data
    /\ encryptDecrypt(pkIn.data, pkIn.key) # pkIn.data

\* C18: whenever a session reaches a terminal state (completed, cancelled, or
\* failed with onError invoked) its transfer id is no longer in the registry in
\* that same step; stated for the receiver: every step that invokes onComplete
\* or onError, or in which cancelTransfer finds the receiver, leaves the id out
\* of activeReceivers.
C18_TerminalUnregisters ==
    [][(\/ rOnComplete' > rOnComplete
        \/ rOnError' > rOnError
        \/ (rCancelled' /\ ~rCancelled)) => FileId \notin activeReceivers']_vars

\* ceil(S/C) for the file size S and the configured chunk size C
SlicePackets == (TotalSize + chunkSize - 1) \div chunkSize

\* C20: the slicing sender cuts a file of S > 0 bytes into ceil(S/C) DATA_CHUNK
\* packets for chunk size C: the packets sent so far carry the sequence numbers
\* 0, 1, 2, ... in order, every payload has C bytes except the last of the
\* file, which has S - (ceil(S/C)-1)*C bytes, and a session that ended with no
\* failure and no cancel sent exactly ceil(S/C) packets and completed once.
C20_SlicingChunkCount ==
    (~fileStream /\ TotalSize > 0) =>
        /\ Len(sentLog) <= SlicePackets
        /\ \A k \in 1..Len(sentLog) :
              /\ sentLog[k].seq = k - 1
              /\ sentLog[k].len = IF k < SlicePackets THEN chunkSize
                                  ELSE TotalSize - (SlicePackets - 1) * chunkSize
        /\ (spc = "ended" /\ sOnError = 0 /\ ~sCancelled) =>
              /\ Len(sentLog) = SlicePackets
              /\ sOnComplete = 1

C20_Witness ==
    /\ ~fileStream
    /\ spc = "ended"
    /\ sOnError = 0
    /\ ~sCancelled
    /\ TotalSize = 3
    /\ chunkSize = 2
    /\ Len(sentLog) = 2
    /\ sentLog[2].seq = 1
    /\ sentLog[2].len = 1

\* C19: at no time do two live sessions of the same role share a transfer id:
\* of the senders whose drive loop is running no two have the same id, and of
\* the receivers that are registered or have a handler suspended in their sink
\* no two have the same id.
SenderLive(k) == senderObjs[k].looping

ReceiverLive(k) ==
    \/ receiversById[receiverObjs[k].fileId] = k
    \/ receiverObjs[k].inWrite > 0
    \/ receiverObjs[k].closing

C19_OneLiveSessionPerId ==
    /\ \A i, j \in 1..Len(senderObjs) :
         (i < j /\ SenderLive(i) /\ SenderLive(j)) =>
             senderObjs[i].fileId # senderObjs[j].fileId
    /\ \A i, j \in 1..Len(receiverObjs) :
         (i < j /\ ReceiverLive(i) /\ ReceiverLive(j)) =>
             receiverObjs[i].fileId # receiverObjs[j].fileId

\* C21: a sender's onComplete is invoked only when all source bytes have been
\* consumed and transmitted: in every state in which onComplete was invoked,
\* sentBytes equals totalSize.  Stated for senders whose retry loop is entered
\* (config.maxRetries > 0 in the streaming sender).
C21_CompleteOnlyWhenAllSent ==
    (sOnComplete > 0 /\ (fileStream => maxRetries > 0)) => sentBytes = TotalSize

\* C22: once the sink is ready, every chunk staged in earlyChunks is passed to
\* processFileChunk before any chunk that arrives after readiness: a step that
\* passes a newly arriving chunk to processFileChunk leaves no staged chunk
\* unprocessed.
C22_ReplayBeforeLive ==
    [][\A h \in Seqs :
         (hpc[h] = "new" /\ Count(processed', h) > Count(processed, h)) =>
             \A k \in 1..Len(earlyChunks) : Count(processed', earlyChunks[k]) > 0]_vars

\* C23: between chunk handlers (no handler suspended, no replay running) every
\* sequence number below expectedChunk was handed to the sink and is absent
\* from the pending map, and every key of the pending map is at or above
\* expectedChunk.  Stated for receivers that were not cancelled and whose sink
\* did not fail.
C23_CursorInvariant ==
    (Quiet /\ ~rCancelled /\ rOnError = 0 /\ writerState # "errored") =>
        /\ \A n \in 0..(expectedChunk - 1) : Count(sink, n) > 0 /\ n \notin chunks
        /\ \A n \in chunks : n >= expectedChunk

\* C24: the DATA_CHUNK packets a sender transmits carry the sequence numbers
\* 0, 1, 2, ... in source-read order, without gaps or duplicates, also across
\* failed attempts and retries: the k-th packet sent has sequence number k-1
\* and carries the k-th chunk of the source, and the counter is the number of
\* packets sent while the drive loop runs.
C24_SequenceNumbers ==
    /\ \A k \in 1..Len(sentLog) : sentLog[k].seq = k - 1 /\ sentLog[k].chunk = k - 1
    /\ fileStream => chunkIndex = Len(sentLog)

C24_Witness ==
    /\ fileStream
    /\ Len(sentLog) = 2
    /\ lastStreak > 0
    /\ sentLog[2].seq = 1
    /\ sentLog[2].chunk = 1

\* the causes the catch block of the retry loop ends a session with
RetryLoopCauses == MaxRetriesCauses \cup {"permanentlyClosed"}

\* C25: in the streaming sender a failed attempt of the retry loop ends the
\* session before the retry budget is spent only when readyState is found not
\* open after the recovery wait; every failure caught counts against the
\* budget, and a failure classified as closed on a channel that is open again
\* after the wait is retried while the budget lasts.
C25_EscalatesOnlyWhenClosed ==
    [][/\ (sOnError' > sOnError /\ sCauses'[Len(sCauses')] \in RetryLoopCauses) =>
            \/ /\ sCauses'[Len(sCauses')] = "permanentlyClosed"
               /\ spc = "recover"
               /\ readyState # "open"
            \/ /\ sCauses'[Len(sCauses')] \in MaxRetriesCauses
               /\ retryCount' >= maxRetries
       /\ failStreak' > failStreak => retryCount' = retryCount + 1
       /\ (spc = "recover" /\ spc' # "recover" /\ readyState = "open"
                           /\ retryCount < maxRetries) =>
            /\ spc' = "backoff"
            /\ sOnError' = sOnError
            /\ retryCount' = retryCount]_vars

C25_Witness ==
    /\ sCauses = <<"maxRetries:closed">>
    /\ readyState = "open"
    /\ maxRetries = 2
    /\ failStreak = 2
    /\ Len(sentLog) = 1

\* C26: when the monitor ticks for an active sender on an open channel that
\* made no forward progress (no successful send) for longer than the stall
\* window of 30 s, that tick marks the session inactive and invokes onError
\* with the stall cause.
C26_StallDetectedAtNextTick ==
    [][(/\ now' > now
        /\ monitorOn
        /\ isActive
        /\ readyState = "open"
        /\ now' - lastSendTime > StallWindow) =>
           /\ ~isActive'
           /\ sOnError' = sOnError + 1
           /\ sCauses'[Len(sCauses')] = "stalled"]_vars

\* C27: waitForBuffer resolves only in a state where readyState is 'open' and
\* bufferedAmount is strictly below one quarter of config.maxBuffered.
C27_ResolvesBelowQuarter ==
    [][(wpc' = "resolved" /\ wpc # "resolved") =>
           /\ readyState = "open"
           /\ 4 * bufferedAmount < maxBuffered]_vars

C27_Witness ==
    /\ wpc = "resolved"
    /\ attempts > 0
    /\ readyState = "open"
    /\ 4 * bufferedAmount < maxBuffered

\* C28: waitForBuffer rejects with the connection-closed error at the first
\* poll that observes readyState different from 'open', whatever bufferedAmount
\* is and also when the attempt budget is already spent; it rejects so at no
\* other poll, and that poll makes no threshold comparison.
C28_ClosedCheckFirst ==
    [][(wpc \in {"idle", "polling"} /\ wvars' # wvars) =>
           /\ readyState # "open" =>
                 /\ wpc' = "closed"
                 /\ attempts' = attempts
                 /\ comparisons' = comparisons
           /\ wpc' = "closed" => readyState # "open"]_vars

C28_Witness ==
    /\ wpc = "closed"
    /\ attempts > maxAttempts
    /\ bufferedAmount = 0

\* C29: a well-formed DATA_CHUNK whose transfer id has no registered receiver
\* is silently ignored: handlePacket returns true, no callback is invoked, and
\* the registry and the existing receiver session are unchanged.
C29_UnknownIdIgnored ==
    [][LET packet == parsePacket(wire', pkIn.key) IN
       (/\ wire' # wire
        /\ packet.ok
        /\ packet.type = 1
        /\ packet.fileId # FileIdUnits \/ FileId \notin activeReceivers) =>
           /\ handled' = "true"
           /\ UNCHANGED <<activeReceivers, isReady, receivedBytes, chunks, expectedChunk,
                          earlyChunks, sink, pending, writerState, closeCalls,
                          processed, rOnComplete, rOnError>>]_vars

C29_Witness ==
    /\ wire = createPacket(1, OtherIdUnits, 0, <<0>>, pkIn.key)
    /\ handled = "true"
    /\ FileId \in activeReceivers
    /\ receivedBytes > 0
    /\ receivedBytes < fileSize
    /\ rOnError = 0

\* C30: after a sink write or close failed for a receiver the transfer is
\* over: onError was invoked once, and no later step invokes a callback again
\* or hands another chunk to the sink.  Stated for receivers that were not
\* cancelled.
C30_SinkErrorTerminates ==
    [][(rOnError >= 1 /\ ~rCancelled) =>
           /\ rOnError' = rOnError
           /\ rOnComplete' = rOnComplete
           /\ sink' = sink]_vars

\* C31: the backoff delay before the k-th retry of a chunk (1 <= k < maxRetries)
\* is min(1000, 100 * 2^(k-1)) ms: while the backoff timer runs its delay is
\* that value for the current retryCount, it is at least the delay of the
\* retry before, and it never exceeds one second.
C31_BackoffDelay ==
    spc = "backoff" =>
        /\ retryCount >= 1
        /\ retryCount < maxRetries
        /\ backoffMs = IF retryCount >= 5 THEN 1000
                       ELSE 100 * 2^(retryCount - 1)
        /\ backoffMs <= 1000
        /\ backoffMs >= 100

C31_Witness ==
    /\ spc = "backoff"
    /\ retryCount = 5
    /\ backoffMs = 1000

\* C32: channel.send is never invoked for a DATA_CHUNK while the channel's
\* readyState is not "open": the readyState seen by the latest send of a
\* session, if there was one, is "open", in both sender paths.
C32_SendOnlyWhenOpen == sendState \in {"none", "open"}

\* C33: a failure while opening the destination (the save-file picker or
\* createWritable rejecting) is fatal to the receiver: once setupWriter has
\* returned from a rejected open, onError has been invoked and the session is
\* no longer registered.
C33_OpenFailureIsFatal ==
    (capabilities = "fileSystemAccess" /\ rphase # "setup" /\ writeMode = "memory") =>
        /\ rOnError >= 1
        /\ FileId \notin activeReceivers

\* C34: the flow-control settings of a transfer depend only on its own file
\* size: while the drive loop of a sender of a file below largeFileThreshold
\* runs, the config.maxBuffered and config.sendDelay it reads are the values
\* of a small file, whatever other senders were started on the instance.
C34_SettingsNotShared ==
    \A k \in 1..Len(senderObjs) :
        (senderObjs[k].looping /\ senderObjs[k].isActive /\ ~senderObjs[k].isLargeFile) =>
            /\ config.maxBuffered = DefaultMaxBuffered
            /\ config.sendDelay = DefaultSendDelay

\* C35: a session's terminal cleanup removes only its own registry entry: a
\* sender that was started under an id after every earlier sender of that id
\* had been cancelled, and that was neither cancelled nor has left its drive
\* loop, is the one activeSenders holds under the id, also once the drive
\* loop of a cancelled sender has finished.
C35_CleanupRemovesOwnEntry ==
    \A j \in 1..Len(senderObjs) :
        ( /\ senderObjs[j].looping
          /\ senderObjs[j].isActive
          /\ \A i \in 1..Len(senderObjs) :
                (i # j /\ senderObjs[i].fileId = senderObjs[j].fileId) =>
                    (i < j /\ ~senderObjs[i].isActive) )
        => sendersById[senderObjs[j].fileId] = j

\* C36: for every declared file size, an empty file included, once the sink
\* is ready and every packet of the completed sender was delivered and handled
\* (no handler, write or close is outstanding, nothing was cancelled and the
\* sink did not fail), the receiver has reached Completed and is deregistered.
C36_ReceiverCompletes ==
    ( /\ rphase = "returned"
      /\ pending = <<>>
      /\ \A h \in Seqs : hpc[h] = "done"
      /\ ~rCancelled
      /\ rOnError = 0
      /\ writerState # "errored" )
    => /\ rOnComplete >= 1
       /\ FileId \notin activeReceivers

\* C37: in the streaming sender, for every configured maxRetries >= 0, each
\* chunk read from the source is transmitted exactly once before the next chunk
\* is read, or the sender fails: a chunk is read only when every chunk before
\* it was transmitted, the packets sent are the chunks in order without
\* repetition, and a session that called onComplete without having failed or
\* been cancelled has transmitted every chunk.
C37_NoChunkSkipped ==
    fileStream =>
        /\ readPos <= Len(sentLog) + 1
        /\ \A k \in 1..Len(sentLog) : sentLog[k].chunk = k - 1
        /\ (sOnComplete > 0 /\ sOnError = 0 /\ ~sCancelled) => Len(sentLog) = NumChunks

\* C38: every started sender session eventually leaves Streaming under fair
\* scheduling of timers, whatever bufferedAmount does while the channel stays
\* open: once startSending was called the drive loop ends, with the session
\* completed or failed.
C38_SenderTerminates == (spc # "idle") ~> (spc = "ended")

C38_Witness ==
    /\ spc = "ended"
    /\ fileStream
    /\ sCauses = <<"stalled">>
    /\ sentBytes > 0
    /\ sentBytes < TotalSize
    /\ bufferedAmount > bufferLimit(TxState)

\* C39: no write is issued to a receiver's sink after that sink has been
\* closed (at completion) or aborted (at cancellation): every call of
\* writer.write finds the sink open, or failed on its own account.
C39_NoWriteAfterClose == writeState \in {"none", "open", "errored"}

\* C40: decoding a packet under a key k2 different from the encoding key k1
\* yields the same type, transfer id, sequence number and payload length as
\* decoding it under k1, while payload byte i is original[i] XOR k1[i mod n1]
\* XOR k2[i mod n2] (n1, n2 the key lengths): the payload equals the source
\* bytes exactly at the positions where the two keys agree.  Stated for the
\* packets the format can carry (type 0..255, id of at most 255 bytes).
C40_OtherKeyGarbles ==
    (ppc = "parsedOther" /\ pkIn.type \in 0..255 /\ Len(TextEncode(pkIn.id)) <= 255) =>
        LET own == parsePacket(wire, pkIn.key)
            k1(i) == pkIn.key[((i - 1) % Len(pkIn.key)) + 1]
            k2(i) == rxKey[((i - 1) % Len(rxKey)) + 1]
        IN /\ parsed.ok /\ own.ok
           /\ parsed.type = own.type
           /\ parsed.fileId = own.fileId
           /\ parsed.chunkIndex = own.chunkIndex
           /\ Len(parsed.data) = Len(pkIn.data)
           /\ \A i \in 1..Len(pkIn.data) :
                /\ parsed.data[i] = BitXor(BitXor(pkIn.data[i], k1(i)), k2(i))
                /\ (parsed.data[i] = pkIn.data[i]) <=> (k1(i) = k2(i))

C40_Witness ==
    /\ ppc = "parsedOther"
    /\ pkIn.type = 1
    /\ pkIn.key = <<85>>
    /\ rxKey = <<85, 255>>
    /\ pkIn.data = <<1, 255>>
    /\ parsed.ok
    /\ parsed.data = <<1, 85>>

====
